---- MODULE Spec2Model ----
(***************************************************************************)
(* Storage layer of the fitness tracker (server/storage.ts) over the       *)
(* relational schema of shared/schema.ts.  Tables are sets of rows, the    *)
(* serial primary keys are counters, every storage method is one action    *)
(* run to completion.  `last` holds the call that ran last and what it     *)
(* returned.                                                               *)
(***************************************************************************)
EXTENDS Integers, Sequences, FiniteSets, TLC

VARIABLES workoutPlans, workoutPlanDays, planSeq, daySeq,
          workouts, exercises, sets, meals,
          workoutSeq, exerciseSeq, setSeq, mealSeq,
          userGoals, goalSeq,
          last, inFlight, formExercises

planVars == <<workoutPlans, workoutPlanDays, planSeq, daySeq>>
workoutVars == <<workouts, exercises, sets, workoutSeq, exerciseSeq, setSeq>>
mealVars == <<meals, mealSeq>>
goalVars == <<userGoals, goalSeq>>
storageVars == <<planVars, workoutVars, mealVars, goalVars>>
vars == <<storageVars, last, inFlight, formExercises>>

(* ---------------------------------------------------------------- bounds *)
Users == {1, 2}
MaxPlans == 2          \* plans ever inserted (SpecPlans)
MaxCreated == 3        \* plans ever inserted (SpecActivation)
MaxDays == 2           \* longest day list given to createWorkoutPlan
MaxNow == 2            \* new Date() reads a time in 1..MaxNow
IdxSlack == 2          \* how far outside 0..MaxDays a supplied index lies

PlanIds == 1..(MaxPlans + 1)
CreatedIds == 1..(MaxCreated + 1)
MaxWorkouts == 2       \* workouts ever inserted
MaxExercises == 2      \* longest exercise list of a request
MaxExerciseRows == 3   \* exercise rows ever inserted
MaxSetRows == 4        \* set rows ever inserted
MaxEach == 1           \* rows ever inserted per table (Spec)

EachIds == 1..(MaxEach + 1)

WorkoutIds == 1..(MaxWorkouts + 1)
Times == 1..MaxNow
MaxDate == 3           \* the dates of workouts and meals are days 1..MaxDate

Dates == 1..MaxDate

\* SQL NULL of a timestamp / integer column (dates and ids start at 1)
NoDate == 0
NoId == 0
NoWeight == -1
NoCategory == ""
NoCalories == -1
\* NULL of a decimal(5, 2) column, whose values lie in -999.99..999.99
NoMacro == -1000

\* the two requests in progress that a race is between, and a request
\* that has no storage call in progress
Calls == {1, 2}

NoCall == [op |-> "", pc |-> "idle"]

(* ------------------------------------------------------------- helpers *)
Has(rec, f) == f \in DOMAIN rec

\* drizzle's .set(patch): the supplied columns overwrite, the others stay
SetColumns(row, patch) ==
    [f \in DOMAIN row |-> IF Has(patch, f) THEN patch[f] ELSE row[f]]

\* JavaScript's % on integers: the sign of the result follows the dividend
JsRem(a, n) == IF a >= 0 THEN a % n ELSE -((-a) % n)

\* mathematical a mod n, for the claims
Mod(a, n) == a % n

(* ----------------------------------------------------- request payloads *)
NoColumns == [f \in {} |-> 0]

CdiInputs == {-IdxSlack, MaxDays + 1}

\* what insertWorkoutPlanSchema lets through, of the columns the storage
\* layer reads back: both are optional, any boolean, any integer
InsertWorkoutPlan ==
    {NoColumns} \cup [isActive : BOOLEAN] \cup [currentDayIndex : CdiInputs]
        \cup [isActive : BOOLEAN, currentDayIndex : CdiInputs]

\* insertWorkoutPlanSchema.partial(): the same columns, all optional; a
\* request that names at least one column
UpdateWorkoutPlanInputs == InsertWorkoutPlan \ {NoColumns}

\* the days of the request body, never validated: the i-th day is named
\* after its place in the list and may carry any index and plan id
DayName(i) == <<"Push", "Pull", "Legs", "Rest", "Core">>[i]

DayLists ==
    UNION {{days \in [1..n -> [name : {DayName(i) : i \in 1..n},
                               dayIndex : {0, MaxDays + 1},
                               planId : {MaxPlans + 1}]]
              : \A i \in 1..n : days[i].name = DayName(i)}
            : n \in 0..MaxDays}

NoDay == [id |-> NoId, planId |-> NoId, dayIndex |-> 0, name |-> ""]

(* ------------------------------------------------------ workout plans *)
DaysOf(planId) == {d \in workoutPlanDays : d.planId = planId}

DayCount(planId) == Cardinality(DaysOf(planId))

ActivePlans(userId) == {p \in workoutPlans : p.userId = userId /\ p.isActive}

\* the same statement scoped by id alone
PlansById(id, userId) == {p \in workoutPlans : p.id = id}

\* the same statement scoped to the active plans of the user
OwnedActivePlans(id, userId) ==
    {p \in workoutPlans : p.id = id /\ p.userId = userId /\ p.isActive}

\* and(eq(id), eq(userId)): the rows an owner-scoped statement matches
OwnedPlans(id, userId) == {p \in workoutPlans : p.id = id /\ p.userId = userId}

\* the first statement without its userId condition
DeactivatePlansOfEveryUser(userId) ==
    {IF p.isActive THEN [p EXCEPT !.isActive = FALSE] ELSE p : p \in workoutPlans}

\* the first statement of createWorkoutPlan
DeactivatePlans(userId) ==
    {IF p.userId = userId /\ p.isActive THEN [p EXCEPT !.isActive = FALSE] ELSE p
        : p \in workoutPlans}

\* column defaults of workout_plans
NewPlanRow(id, userId, plan) ==
    [id |-> id,
     userId |-> userId,
     isActive |-> IF Has(plan, "isActive") THEN plan.isActive ELSE TRUE,
     currentDayIndex |-> IF Has(plan, "currentDayIndex") THEN plan.currentDayIndex ELSE 0,
     lastWorkoutDate |-> NoDate]

\* the spread written last: ({planId: newPlan.id, dayIndex: index, ...day})
DaysKeepingTheirIndex(days, planId) ==
    [i \in 1..Len(days) |->
        [name |-> days[i].name, planId |-> days[i].planId, dayIndex |-> days[i].dayIndex]]

\* days.map((day, index) => ({...day, planId: newPlan.id, dayIndex: index}))
DaysWithPlanId(days, planId) ==
    [i \in 1..Len(days) |-> [name |-> days[i].name, planId |-> planId, dayIndex |-> i - 1]]

createWorkoutPlan(userId, plan, days) ==
    /\ LET newPlan == NewPlanRow(planSeq, userId, plan)
           mapped == DaysWithPlanId(days, newPlan.id)
           newDays == {[id |-> daySeq + i - 1,
                        planId |-> mapped[i].planId,
                        dayIndex |-> mapped[i].dayIndex,
                        name |-> mapped[i].name] : i \in 1..Len(days)}
       IN /\ workoutPlans' = DeactivatePlans(userId) \cup {newPlan}
          /\ workoutPlanDays' = workoutPlanDays \cup newDays
          /\ planSeq' = planSeq + 1
          /\ daySeq' = daySeq + Len(days)
          \* an insert of no rows is refused by the query builder, after the
          \* plan row is already stored
          /\ last' = [op |-> "createWorkoutPlan", user |-> userId, id |-> newPlan.id,
                      args |-> [plan |-> plan, days |-> days],
                      res |-> IF Len(days) = 0 THEN "error" ELSE "row", ret |-> NoDay]
    /\ UNCHANGED <<formExercises, goalVars, inFlight, workoutVars, mealVars>>

\* .update(workoutPlans).set(plan).where(and(eq(id), eq(userId))).returning()
updateWorkoutPlan(id, userId, plan) ==
    /\ workoutPlans' = {IF p \in OwnedPlans(id, userId) THEN SetColumns(p, plan) ELSE p
                          : p \in workoutPlans}
    /\ last' = [op |-> "updateWorkoutPlan", user |-> userId, id |-> id,
                args |-> NoColumns,
                res |-> IF OwnedPlans(id, userId) = {} THEN "undefined" ELSE "row",
                ret |-> NoDay]
    /\ UNCHANGED <<formExercises, goalVars, inFlight, workoutPlanDays, planSeq, daySeq, workoutVars, mealVars>>

\* ON DELETE of the foreign keys that point at workout_plans and
\* a delete of plan rows that would leave their days behind
PlansDeletedAlone(gone) ==
    /\ workoutPlans' = workoutPlans \ gone
    /\ workouts' = {[w EXCEPT !.planId = IF \E p \in gone : p.id = @ THEN NoId ELSE @]
                      : w \in workouts}
    /\ UNCHANGED workoutPlanDays

\* workout_plan_days: the days go with their plan (cascade), a workout that
\* was drawn from the plan or from one of its days keeps its row and loses
\* the reference (set null)
PlansDeleted(gone) ==
    LET goneIds == {p.id : p \in gone}
        goneDays == {d \in workoutPlanDays : d.planId \in goneIds}
        goneDayIds == {d.id : d \in goneDays}
    IN /\ workoutPlans' = workoutPlans \ gone
       /\ workoutPlanDays' = workoutPlanDays \ goneDays
       /\ workouts' = {[w EXCEPT !.planId = IF @ \in goneIds THEN NoId ELSE @,
                                 !.planDayId = IF @ \in goneDayIds THEN NoId ELSE @]
                         : w \in workouts}

deleteWorkoutPlan(id, userId) ==
    /\ PlansDeleted(OwnedPlans(id, userId))
    /\ last' = [op |-> "deleteWorkoutPlan", user |-> userId, id |-> id,
                args |-> NoColumns,
                res |-> IF OwnedPlans(id, userId) = {} THEN "false" ELSE "true",
                ret |-> NoDay]
    /\ UNCHANGED <<formExercises, goalVars, inFlight, planSeq, daySeq, exercises, sets, workoutSeq, exerciseSeq, setSeq,
                   mealVars>>

\* a cursor that stops at the last day instead of wrapping
NextDayIndexStopping(currentDayIndex, dayCount) ==
    IF currentDayIndex + 1 >= dayCount THEN currentDayIndex ELSE currentDayIndex + 1

\* (plan[0].currentDayIndex + 1) % days.length
NextDayIndex(currentDayIndex, dayCount) == JsRem(currentDayIndex + 1, dayCount)

\* `date` is what new Date() reads
advanceWorkoutPlan(userId, planId, date) ==
    LET plan == OwnedPlans(planId, userId)
        dayCount == DayCount(planId)
    IN /\ IF plan = {}
            THEN \* if (plan.length === 0) return;
                 /\ UNCHANGED workoutPlans
                 /\ last' = [op |-> "advanceWorkoutPlan", user |-> userId, id |-> planId,
                             args |-> [date |-> date],
                             res |-> "noop", ret |-> NoDay]
          ELSE IF dayCount = 0
            THEN \* x % 0 is NaN, which the integer column refuses: the
                 \* UPDATE fails and the call rejects
                 /\ UNCHANGED workoutPlans
                 /\ last' = [op |-> "advanceWorkoutPlan", user |-> userId, id |-> planId,
                             args |-> [date |-> date],
                             res |-> "error", ret |-> NoDay]
            ELSE \* .where(eq(workoutPlans.id, planId))
                 /\ workoutPlans' =
                       {IF p.id = planId
                          THEN [p EXCEPT
                                  !.currentDayIndex =
                                      NextDayIndex((CHOOSE q \in plan : TRUE).currentDayIndex,
                                                   dayCount),
                                  !.lastWorkoutDate = date]
                          ELSE p : p \in workoutPlans}
                 /\ last' = [op |-> "advanceWorkoutPlan", user |-> userId, id |-> planId,
                             args |-> [date |-> date],
                             res |-> "void", ret |-> NoDay]
       /\ UNCHANGED <<formExercises, goalVars, inFlight, workoutPlanDays, planSeq, daySeq, workoutVars, mealVars>>

\* days.find((day) => day.dayIndex === currentDayIndex) over the days in
\* dayIndex order; undefined when no day has that index
FindDay(plan) ==
    LET hits == {d \in DaysOf(plan.id) : d.dayIndex = plan.currentDayIndex}
    IN IF hits = {} THEN NoDay
       ELSE CHOOSE d \in hits : \A e \in hits : d.id <= e.id

\* getActiveWorkoutPlan is SELECT ... WHERE userId AND isActive LIMIT 1 with
\* no ORDER BY: with several active rows the store may hand back any of them
getNextWorkoutDayResults(userId) ==
    IF ActivePlans(userId) = {} THEN {NoDay}
    ELSE {FindDay(p) : p \in ActivePlans(userId)}

getNextWorkoutDay(userId) ==
    /\ \E d \in getNextWorkoutDayResults(userId) :
          last' = [op |-> "getNextWorkoutDay", user |-> userId, id |-> NoId,
                   args |-> NoColumns,
                   res |-> IF d = NoDay THEN "undefined" ELSE "row", ret |-> d]
    /\ UNCHANGED <<formExercises, inFlight, storageVars>>

(* ------------------------------------------------------------ workouts *)
\* the set shapes the strength form produces: a working set with a weight,
\* a warm-up without one, a zero-weight set; setNumber is whatever the
\* caller sent
SquatSet == [setNumber |-> 1, reps |-> 5, weight |-> 100]
WarmupSet == [setNumber |-> 3, reps |-> 8, isWarmup |-> TRUE]
EmptyBarSet == [setNumber |-> 2, reps |-> 10, weight |-> 0, isWarmup |-> FALSE]

ExerciseInputs ==
    {[name |-> "Squat", category |-> "legs", sets |-> <<SquatSet>>],
     [name |-> "Bench", sets |-> <<WarmupSet, EmptyBarSet>>]}

\* lists of distinct exercises
ExerciseLists ==
    {list \in UNION {[1..n -> ExerciseInputs] : n \in 0..MaxExercises} :
        \A i, j \in 1..Len(list) : i # j => list[i] # list[j]}

\* exerciseData of a call: {} when the argument is undefined, {list} when
\* a list (possibly empty) is supplied
ExerciseData == {{}} \cup {{list} : list \in ExerciseLists}

\* duration is integer("duration").notNull(): the schema derived from the
\* table takes any integer, the form sends 60 unless told otherwise
DurationInputs == {-5, 0, 60}

CaloriesInputs == {0, 300}

\* the workouts columns the storage layer reads back, as far as
\* insertWorkoutSchema lets them through: duration and date are required,
\* workoutType, planId and caloriesBurned are optional
InsertWorkout ==
    [duration : DurationInputs, date : Dates]
        \cup [duration : DurationInputs, date : Dates,
              workoutType : {"strength", "cardio"}]
        \cup [duration : DurationInputs, date : Dates,
              workoutType : {"strength", "cardio"}, planId : EachIds]
        \cup [duration : DurationInputs, date : Dates,
              caloriesBurned : CaloriesInputs]

\* a workout as the form sends it when only the type is chosen: 60
\* minutes, the day's date, no calories
FormWorkouts ==
    {workout \in InsertWorkout :
        /\ workout.duration = 60
        /\ workout.date = MaxDate
        /\ ~Has(workout, "caloriesBurned")}

UpdateWorkoutInputs == [workoutType : {"strength", "cardio"}]

\* insertWorkoutSchema.parse: a body without the required duration or date
\* is refused
ParsesAsInsertWorkout(workoutData) ==
    Has(workoutData, "duration") /\ Has(workoutData, "date")

\* the workout of a create request body: what the schema accepts, and the
\* same without a duration
PostWorkoutBodies ==
    {workout \in InsertWorkout :
        /\ ~Has(workout, "planId")
        /\ ~Has(workout, "caloriesBurned")
        /\ workout.date = MaxDate}
        \cup {NoColumns} \cup [workoutType : {"strength", "cardio"}]

\* the workout of an update request body, parsed by
\* insertWorkoutSchema.partial(): every column optional
PutWorkoutBodies ==
    [duration : DurationInputs] \cup [workoutType : {"strength", "cardio"}]
        \cup [duration : DurationInputs, workoutType : {"strength", "cardio"}]

\* setData.weight?.toString() || null into decimal(6, 2): the number in
\* hundredths, NULL when no weight was sent
DecimalWeight(setData) ==
    IF Has(setData, "weight") THEN setData.weight * 100 ELSE NoWeight

\* exerciseInput.category || null
CategoryOrNull(exerciseInput) ==
    IF Has(exerciseInput, "category") /\ exerciseInput.category # ""
      THEN exerciseInput.category ELSE NoCategory

\* setData.isWarmup || false
WarmupOrFalse(setData) == Has(setData, "isWarmup") /\ setData.isWarmup

RECURSIVE SumLen(_, _)
SumLen(list, i) ==
    IF i = 0 THEN 0 ELSE Len(list[i].sets) + SumLen(list, i - 1)

\* the number of set rows inserted for the first i exercises of the list
SetsBefore(list, i) == SumLen(list, i - 1)

\* the for-loops of createWorkout and updateWorkout: one exercise row per
\* list entry, in list order, then one set row per entry of its sets
ExerciseRows(list, workoutId) ==
    {[id |-> exerciseSeq + i - 1,
      workoutId |-> workoutId,
      name |-> list[i].name,
      category |-> CategoryOrNull(list[i])] : i \in 1..Len(list)}

SetRows(list) ==
    UNION {{[id |-> setSeq + SetsBefore(list, i) + j - 1,
             exerciseId |-> exerciseSeq + i - 1,
             setNumber |-> list[i].sets[j].setNumber,
             reps |-> list[i].sets[j].reps,
             weight |-> DecimalWeight(list[i].sets[j]),
             isWarmup |-> WarmupOrFalse(list[i].sets[j])]
              : j \in 1..Len(list[i].sets)}
            : i \in 1..Len(list)}

\* a condition that looks at exerciseData alone
WritesGivenData(workout, exerciseData) == exerciseData # {}

\* workout.workoutType === "strength" && exerciseData
WritesExercises(workout, exerciseData) ==
    /\ Has(workout, "workoutType")
    /\ workout.workoutType = "strength"
    /\ exerciseData # {}

TheList(exerciseData) == CHOOSE list \in exerciseData : TRUE

\* column defaults of workouts
NewWorkoutRow(id, userId, workout) ==
    [id |-> id,
     userId |-> userId,
     workoutType |-> IF Has(workout, "workoutType") THEN workout.workoutType ELSE "cardio",
     duration |-> workout.duration,
     caloriesBurned |-> IF Has(workout, "caloriesBurned")
                          THEN workout.caloriesBurned ELSE NoCalories,
     date |-> workout.date,
     planId |-> IF Has(workout, "planId") THEN workout.planId ELSE NoId,
     planDayId |-> NoId]

\* the foreign key workouts.plan_id -> workout_plans.id
PlanExists(planId) == planId = NoId \/ \E p \in workoutPlans : p.id = planId

createWorkout(userId, workout, exerciseData) ==
    LET newWorkout == NewWorkoutRow(workoutSeq, userId, workout)
        list == IF WritesExercises(workout, exerciseData)
                  THEN TheList(exerciseData) ELSE <<>>
    IN /\ workoutSeq' = workoutSeq + 1
       /\ IF PlanExists(newWorkout.planId)
            THEN /\ workouts' = workouts \cup {newWorkout}
                 /\ exercises' = exercises \cup ExerciseRows(list, newWorkout.id)
                 /\ sets' = sets \cup SetRows(list)
                 /\ exerciseSeq' = exerciseSeq + Len(list)
                 /\ setSeq' = setSeq + SumLen(list, Len(list))
            ELSE \* the insert is refused; the sequence value is spent
                 UNCHANGED <<workouts, exercises, sets, exerciseSeq, setSeq>>
       /\ last' = [op |-> "createWorkout", user |-> userId, id |-> newWorkout.id,
                   args |-> [workout |-> workout, exerciseData |-> exerciseData],
                   res |-> IF PlanExists(newWorkout.planId) THEN "row" ELSE "error",
                   ret |-> NoDay]
       /\ UNCHANGED <<formExercises, goalVars, inFlight, planVars, mealVars>>

\* the same statement scoped by id alone
WorkoutsById(id, userId) == {w \in workouts : w.id = id}

\* and(eq(workouts.id, id), eq(workouts.userId, userId))
OwnedWorkouts(id, userId) == {w \in workouts : w.id = id /\ w.userId = userId}

\* for each existing exercise: db.delete(sets).where(eq(sets.exerciseId, exercise.id))
SetsAfterDelete(existingIds) == {t \in sets : t.exerciseId \notin existingIds}

\* a merge: the former exercises stay
ExercisesKept(id) == exercises

\* db.delete(exercises).where(eq(exercises.workoutId, id))
ExercisesAfterDelete(id) == {e \in exercises : e.workoutId # id}

updateWorkout(id, userId, workout, exerciseData) ==
    LET updated == OwnedWorkouts(id, userId)
        replaces == updated # {} /\ WritesExercises(workout, exerciseData)
        list == IF replaces THEN TheList(exerciseData) ELSE <<>>
        \* select id from exercises where workoutId = id
        existingExercises == {e \in exercises : e.workoutId = id}
        existingIds == {e.id : e \in existingExercises}
    IN /\ workouts' = {IF w \in updated THEN SetColumns(w, workout) ELSE w : w \in workouts}
       /\ IF replaces
            THEN /\ sets' = SetsAfterDelete(existingIds) \cup SetRows(list)
                 /\ exercises' = ExercisesAfterDelete(id) \cup ExerciseRows(list, id)
            ELSE UNCHANGED <<exercises, sets>>
       /\ exerciseSeq' = exerciseSeq + Len(list)
       /\ setSeq' = setSeq + SumLen(list, Len(list))
       /\ last' = [op |-> "updateWorkout", user |-> userId, id |-> id,
                   args |-> [workout |-> workout, exerciseData |-> exerciseData],
                   res |-> IF updated = {} THEN "undefined" ELSE "row",
                   ret |-> NoDay]
       /\ UNCHANGED <<formExercises, goalVars, inFlight, workoutSeq, planVars, mealVars>>

\* a delete of workout rows that would leave their exercises behind
NotCascaded(gone) == {}

\* ON DELETE CASCADE of exercises.workout_id: the exercises that go with
\* the deleted workout rows
Cascaded(gone) == {e \in exercises : \E w \in gone : e.workoutId = w.id}

\* ON DELETE CASCADE of exercises.workout_id and sets.exercise_id
deleteWorkout(id, userId) ==
    LET gone == OwnedWorkouts(id, userId)
        goneExercises == Cascaded(gone)
    IN /\ workouts' = workouts \ gone
       /\ exercises' = exercises \ goneExercises
       /\ sets' = {t \in sets : \A e \in goneExercises : t.exerciseId # e.id}
       /\ last' = [op |-> "deleteWorkout", user |-> userId, id |-> id,
                   args |-> NoColumns,
                   res |-> IF gone = {} THEN "false" ELSE "true",
                   ret |-> NoDay]
       /\ UNCHANGED <<formExercises, goalVars, inFlight, workoutSeq, exerciseSeq, setSeq, planVars, mealVars>>

(* --------------------------------------------------------------- meals *)
\* grams of protein, carbs and fat of a meal as a request may send them:
\* none, zeros, whole grams, and amounts below zero, which neither
\* insertMealSchema nor the columns refuse
MacroInputs ==
    {[protein |-> 0, carbs |-> 0, fat |-> 0],
     [protein |-> 1, carbs |-> 3, fat |-> 4],
     [protein |-> 2, carbs |-> 1],
     [protein |-> -5, carbs |-> 5],
     [protein |-> -5]}

\* { ...a, ...b } of two records with different columns
Merged(a, b) ==
    [f \in DOMAIN a \cup DOMAIN b |-> IF f \in DOMAIN b THEN b[f] ELSE a[f]]

\* the meals columns the storage layer reads back, as far as
\* insertMealSchema lets them through: calories and date are required,
\* protein, carbs and fat are optional
InsertMeal ==
    [calories : {300, 500}, date : Dates]
        \cup {Merged(meal, macros) :
                 meal \in [calories : {300, 500}, date : Dates], macros \in MacroInputs}

\* a meal logged with its calories alone, on the day
PlainMeals ==
    {meal \in InsertMeal : DOMAIN meal = {"calories", "date"} /\ meal.date = MaxDate}

UpdateMealInputs == [calories : {300, 500}]

MacroOrNull(meal, macro) == IF Has(meal, macro) THEN meal[macro] ELSE NoMacro

createMeal(userId, meal) ==
    /\ meals' = meals \cup {[id |-> mealSeq, userId |-> userId,
                              calories |-> meal.calories,
                              protein |-> MacroOrNull(meal, "protein"),
                              carbs |-> MacroOrNull(meal, "carbs"),
                              fat |-> MacroOrNull(meal, "fat"),
                              date |-> meal.date]}
    /\ mealSeq' = mealSeq + 1
    /\ last' = [op |-> "createMeal", user |-> userId, id |-> mealSeq,
                args |-> NoColumns, res |-> "row", ret |-> NoDay]
    /\ UNCHANGED <<formExercises, goalVars, inFlight, planVars, workoutVars>>

OwnedMeals(id, userId) == {m \in meals : m.id = id /\ m.userId = userId}

updateMeal(id, userId, meal) ==
    /\ meals' = {IF m \in OwnedMeals(id, userId) THEN SetColumns(m, meal) ELSE m : m \in meals}
    /\ last' = [op |-> "updateMeal", user |-> userId, id |-> id,
                args |-> NoColumns,
                res |-> IF OwnedMeals(id, userId) = {} THEN "undefined" ELSE "row",
                ret |-> NoDay]
    /\ UNCHANGED <<formExercises, goalVars, inFlight, mealSeq, planVars, workoutVars>>

deleteMeal(id, userId) ==
    /\ meals' = meals \ OwnedMeals(id, userId)
    /\ last' = [op |-> "deleteMeal", user |-> userId, id |-> id,
                args |-> NoColumns,
                res |-> IF OwnedMeals(id, userId) = {} THEN "false" ELSE "true",
                ret |-> NoDay]
    /\ UNCHANGED <<formExercises, goalVars, inFlight, mealSeq, planVars, workoutVars>>

(* ------------------------------------------------------------ behaviour *)
Init ==
    /\ workoutPlans = {}
    /\ workoutPlanDays = {}
    /\ planSeq = 1
    /\ daySeq = 1
    /\ workouts = {}
    /\ exercises = {}
    /\ sets = {}
    /\ meals = {}
    /\ workoutSeq = 1
    /\ exerciseSeq = 1
    /\ setSeq = 1
    /\ mealSeq = 1
    /\ userGoals = {}
    /\ goalSeq = 1
    /\ last = [op |-> "init", user |-> 0, id |-> NoId, args |-> NoColumns, res |-> "", ret |-> NoDay]
    /\ inFlight = [c \in Calls |-> NoCall]
    /\ formExercises = <<>>

\* the plan operations, on up to MaxPlans plans
CreateWorkoutPlan ==
    /\ planSeq <= MaxPlans
    /\ \E u \in Users, plan \in InsertWorkoutPlan, days \in DayLists :
          createWorkoutPlan(u, plan, days)

UpdateWorkoutPlan ==
    \E id \in PlanIds, u \in Users, plan \in UpdateWorkoutPlanInputs :
        updateWorkoutPlan(id, u, plan)

DeleteWorkoutPlan ==
    \E id \in PlanIds, u \in Users : deleteWorkoutPlan(id, u)

AdvanceWorkoutPlan ==
    \E u \in Users, planId \in PlanIds, date \in Times :
        advanceWorkoutPlan(u, planId, date)

GetNextWorkoutDay ==
    \E u \in Users : getNextWorkoutDay(u)

NextPlans ==
    \/ CreateWorkoutPlan
    \/ UpdateWorkoutPlan
    \/ DeleteWorkoutPlan
    \/ AdvanceWorkoutPlan
    \/ GetNextWorkoutDay

SpecPlans == Init /\ [][NextPlans]_vars

\* creation, activation and deletion alone, on up to MaxCreated one-day plans
CreatePlan ==
    /\ planSeq <= MaxCreated
    /\ \E u \in Users, plan \in InsertWorkoutPlan, days \in DayLists :
          Len(days) = 1 /\ createWorkoutPlan(u, plan, days)

SetPlanActive ==
    \E id \in CreatedIds, u \in Users, plan \in [isActive : BOOLEAN] :
        updateWorkoutPlan(id, u, plan)

DeletePlan ==
    \E id \in CreatedIds, u \in Users : deleteWorkoutPlan(id, u)

NextActivation ==
    \/ CreatePlan
    \/ SetPlanActive
    \/ DeletePlan

SpecActivation == Init /\ [][NextActivation]_vars

\* the workout operations, on up to MaxWorkouts workouts
CreateWorkout ==
    /\ workoutSeq <= MaxWorkouts
    /\ \E u \in Users, workout \in FormWorkouts, exerciseData \in ExerciseData :
          /\ ~Has(workout, "planId")
          /\ createWorkout(u, workout, exerciseData)
          /\ exerciseSeq' - 1 <= MaxExerciseRows
          /\ setSeq' - 1 <= MaxSetRows

UpdateWorkout ==
    \E id \in WorkoutIds, u \in Users, workout \in UpdateWorkoutInputs,
       exerciseData \in ExerciseData :
          /\ updateWorkout(id, u, workout, exerciseData)
          /\ exerciseSeq' - 1 <= MaxExerciseRows
          /\ setSeq' - 1 <= MaxSetRows

DeleteWorkout ==
    \E id \in WorkoutIds, u \in Users : deleteWorkout(id, u)

NextWorkouts ==
    \/ CreateWorkout
    \/ UpdateWorkout
    \/ DeleteWorkout

SpecWorkouts == Init /\ [][NextWorkouts]_vars

\* every storage operation, on up to MaxEach rows per table, with one
\* request of each kind
OneDay == {days \in DayLists : Len(days) = 1}
OneExercise == {{}} \cup {{list} : list \in {l \in ExerciseLists : Len(l) = 1}}

PlanCreate ==
    /\ planSeq <= MaxEach
    /\ \E u \in Users, days \in OneDay : createWorkoutPlan(u, NoColumns, days)

PlanUpdate ==
    \E id \in EachIds, u \in Users,
       plan \in {[isActive |-> FALSE], [currentDayIndex |-> MaxDays + 1]} :
        updateWorkoutPlan(id, u, plan)

PlanDelete ==
    \E id \in EachIds, u \in Users : deleteWorkoutPlan(id, u)

PlanAdvance ==
    \E id \in EachIds, u \in Users : advanceWorkoutPlan(u, id, 1)

WorkoutCreate ==
    /\ workoutSeq <= MaxEach
    /\ \E u \in Users, workout \in FormWorkouts, exerciseData \in OneExercise :
          /\ Has(workout, "workoutType") /\ workout.workoutType = "strength"
          /\ createWorkout(u, workout, exerciseData)
          /\ exerciseSeq' - 1 <= MaxEach
          /\ setSeq' - 1 <= MaxEach

WorkoutUpdate ==
    \E id \in EachIds, u \in Users, workout \in UpdateWorkoutInputs,
       exerciseData \in OneExercise :
          /\ updateWorkout(id, u, workout, exerciseData)
          /\ exerciseSeq' - 1 <= MaxEach
          /\ setSeq' - 1 <= MaxEach

WorkoutDelete ==
    \E id \in EachIds, u \in Users : deleteWorkout(id, u)

MealCreate ==
    /\ mealSeq <= MaxEach
    /\ \E u \in Users, meal \in PlainMeals : createMeal(u, meal)

MealUpdate ==
    \E id \in EachIds, u \in Users, meal \in UpdateMealInputs : updateMeal(id, u, meal)

MealDelete ==
    \E id \in EachIds, u \in Users : deleteMeal(id, u)

Next ==
    \/ PlanCreate
    \/ PlanUpdate
    \/ PlanDelete
    \/ PlanAdvance
    \/ WorkoutCreate
    \/ WorkoutUpdate
    \/ WorkoutDelete
    \/ MealCreate
    \/ MealUpdate
    \/ MealDelete

Spec == Init /\ [][Next]_vars

\* the workout routes: the body is parsed, a body the schema refuses is
\* answered 400 before storage is called
postWorkout(userId, workoutData, exerciseData) ==
    IF ParsesAsInsertWorkout(workoutData)
      THEN createWorkout(userId, workoutData, exerciseData)
      ELSE /\ last' = [op |-> "postWorkout", user |-> userId, id |-> NoId,
                       args |-> [workout |-> workoutData, exerciseData |-> exerciseData],
                       res |-> "400", ret |-> NoDay]
           /\ UNCHANGED <<storageVars, inFlight, formExercises>>

\* insertWorkoutSchema.partial().parse accepts every body of PutWorkoutBodies
putWorkout(id, userId, workoutData, exerciseData) ==
    updateWorkout(id, userId, workoutData, exerciseData)

PostWorkout ==
    /\ workoutSeq <= MaxEach
    /\ \E u \in Users, workoutData \in PostWorkoutBodies, exerciseData \in OneExercise :
          /\ postWorkout(u, workoutData, exerciseData)
          /\ exerciseSeq' - 1 <= MaxExerciseRows
          /\ setSeq' - 1 <= MaxSetRows

PutWorkout ==
    \E id \in EachIds, u \in Users, workoutData \in PutWorkoutBodies,
       exerciseData \in OneExercise :
          /\ putWorkout(id, u, workoutData, exerciseData)
          /\ exerciseSeq' - 1 <= MaxExerciseRows
          /\ setSeq' - 1 <= MaxSetRows

NextRequests ==
    \/ PostWorkout
    \/ PutWorkout

SpecRequests == Init /\ [][NextRequests]_vars

\* one plan, and from then on advance calls alone: the cursor left to the
\* advance operation, which its owner keeps calling
CyclePlan ==
    /\ planSeq = 1
    /\ \E u \in Users, plan \in InsertWorkoutPlan, days \in DayLists :
          createWorkoutPlan(u, plan, days)

CycleAdvance ==
    \E u \in Users, date \in Times : advanceWorkoutPlan(u, 1, date)

CycleOwnerAdvance ==
    \E p \in workoutPlans, date \in Times : advanceWorkoutPlan(p.userId, p.id, date)

NextCycle ==
    \/ CyclePlan
    \/ CycleAdvance

SpecCycle == Init /\ [][NextCycle]_vars /\ WF_vars(CycleOwnerAdvance)

(* ------------------------------------------- calls that run concurrently *)
\* Every await of a storage method hands control back to the event loop, so
\* two requests in progress take turns statement by statement.  inFlight[c]
\* is the call in progress in request c: its arguments, the statement it
\* is at, and its local constants.
Returned(c, op) == inFlight[c].op = op /\ inFlight[c].pc = "returned"

\* the plan days of a split of RaceDays days
RaceDays == 3

RaceDayList == [i \in 1..RaceDays |-> [name |-> DayName(i), dayIndex |-> 0, planId |-> NoId]]

\* plan[0].currentDayIndex of the row this call selected, not of the row
\* stored when the update runs
AdvanceFromStored(call, stored) == stored.currentDayIndex

AdvanceFrom(call, stored) == (CHOOSE q \in call.plan : TRUE).currentDayIndex

callAdvanceWorkoutPlan(c, userId, planId, date) ==
    /\ inFlight[c].pc = "idle"
    /\ inFlight' = [inFlight EXCEPT ![c] =
                       [op |-> "advanceWorkoutPlan", pc |-> "selectPlan",
                        user |-> userId, id |-> planId, date |-> date,
                        plan |-> {}, days |-> {}]]
    /\ UNCHANGED <<formExercises, storageVars, last>>

\* const plan = await db.select()...limit(1); if (plan.length === 0) return;
advanceSelectPlan(c) ==
    LET call == inFlight[c]
        plan == OwnedPlans(call.id, call.user)
    IN /\ call.op = "advanceWorkoutPlan" /\ call.pc = "selectPlan"
       /\ inFlight' = [inFlight EXCEPT ![c] =
                          [call EXCEPT !.plan = plan,
                                       !.pc = IF plan = {} THEN "returned" ELSE "selectDays"]]
       /\ IF plan = {}
            THEN last' = [op |-> "advanceWorkoutPlan", user |-> call.user, id |-> call.id,
                          args |-> [date |-> call.date], res |-> "noop", ret |-> NoDay]
            ELSE UNCHANGED last
       /\ UNCHANGED <<formExercises, storageVars>>

\* const days = await db.select().from(workoutPlanDays)...
advanceSelectDays(c) ==
    LET call == inFlight[c]
    IN /\ call.op = "advanceWorkoutPlan" /\ call.pc = "selectDays"
       /\ inFlight' = [inFlight EXCEPT ![c] =
                          [call EXCEPT !.days = DaysOf(call.id), !.pc = "update"]]
       /\ UNCHANGED <<formExercises, storageVars, last>>

\* nextDayIndex = (plan[0].currentDayIndex + 1) % days.length; await db.update(...)
advanceUpdate(c) ==
    LET call == inFlight[c]
        dayCount == Cardinality(call.days)
    IN /\ call.op = "advanceWorkoutPlan" /\ call.pc = "update"
       /\ inFlight' = [inFlight EXCEPT ![c] = [call EXCEPT !.pc = "returned"]]
       /\ IF dayCount = 0
            THEN /\ UNCHANGED workoutPlans
                 /\ last' = [op |-> "advanceWorkoutPlan", user |-> call.user, id |-> call.id,
                             args |-> [date |-> call.date], res |-> "error", ret |-> NoDay]
            ELSE /\ workoutPlans' =
                       {IF p.id = call.id
                          THEN [p EXCEPT
                                  !.currentDayIndex = NextDayIndex(AdvanceFrom(call, p), dayCount),
                                  !.lastWorkoutDate = call.date]
                          ELSE p : p \in workoutPlans}
                 /\ last' = [op |-> "advanceWorkoutPlan", user |-> call.user, id |-> call.id,
                             args |-> [date |-> call.date], res |-> "void", ret |-> NoDay]
       /\ UNCHANGED <<formExercises, goalVars, workoutPlanDays, planSeq, daySeq, workoutVars, mealVars>>

\* one plan of RaceDays days and two advance requests for it
RacePlan ==
    /\ planSeq = 1
    /\ \E u \in Users : createWorkoutPlan(u, NoColumns, RaceDayList)

RaceAdvanceCall ==
    \E c \in Calls, u \in Users, date \in Times : callAdvanceWorkoutPlan(c, u, 1, date)

RaceAdvanceSelectPlan == \E c \in Calls : advanceSelectPlan(c)

RaceAdvanceSelectDays == \E c \in Calls : advanceSelectDays(c)

RaceAdvanceUpdate == \E c \in Calls : advanceUpdate(c)

NextAdvanceRace ==
    \/ RacePlan
    \/ RaceAdvanceCall
    \/ RaceAdvanceSelectPlan
    \/ RaceAdvanceSelectDays
    \/ RaceAdvanceUpdate

SpecAdvanceRace == Init /\ [][NextAdvanceRace]_vars

\* an insert that would also deactivate the owner's other plans
InsertPlanRowAsOnlyActive(plans, newPlan) ==
    {IF p.userId = newPlan.userId /\ newPlan.isActive
       THEN [p EXCEPT !.isActive = FALSE] ELSE p : p \in plans} \cup {newPlan}

\* db.insert(workoutPlans).values(plan)
InsertPlanRow(plans, newPlan) == plans \cup {newPlan}

\* deactivatedAt is the value of the id sequence when the first statement
\* ran: it tells that statement's place among the inserts
callCreateWorkoutPlan(c, userId, plan, days) ==
    /\ inFlight[c].pc = "idle"
    /\ inFlight' = [inFlight EXCEPT ![c] =
                       [op |-> "createWorkoutPlan", pc |-> "deactivate",
                        user |-> userId, plan |-> plan, days |-> days,
                        deactivatedAt |-> NoId, newPlan |-> NoId]]
    /\ UNCHANGED <<formExercises, storageVars, last>>

\* await db.update(workoutPlans).set({ isActive: false }).where(...)
createDeactivate(c) ==
    LET call == inFlight[c]
    IN /\ call.op = "createWorkoutPlan" /\ call.pc = "deactivate"
       /\ workoutPlans' = DeactivatePlans(call.user)
       /\ inFlight' = [inFlight EXCEPT ![c] =
                          [call EXCEPT !.deactivatedAt = planSeq, !.pc = "insertPlan"]]
       /\ UNCHANGED <<formExercises, goalVars, workoutPlanDays, planSeq, daySeq, workoutVars, mealVars, last>>

\* const [newPlan] = await db.insert(workoutPlans).values(plan).returning()
createInsertPlan(c) ==
    LET call == inFlight[c]
        newPlan == NewPlanRow(planSeq, call.user, call.plan)
    IN /\ call.op = "createWorkoutPlan" /\ call.pc = "insertPlan"
       /\ workoutPlans' = InsertPlanRow(workoutPlans, newPlan)
       /\ planSeq' = planSeq + 1
       /\ inFlight' = [inFlight EXCEPT ![c] =
                          [call EXCEPT !.newPlan = newPlan.id, !.pc = "insertDays"]]
       /\ UNCHANGED <<formExercises, goalVars, workoutPlanDays, daySeq, workoutVars, mealVars, last>>

\* daysWithPlanId; await db.insert(workoutPlanDays).values(daysWithPlanId)
createInsertDays(c) ==
    LET call == inFlight[c]
        mapped == DaysWithPlanId(call.days, call.newPlan)
        newDays == {[id |-> daySeq + i - 1,
                     planId |-> mapped[i].planId,
                     dayIndex |-> mapped[i].dayIndex,
                     name |-> mapped[i].name] : i \in 1..Len(call.days)}
    IN /\ call.op = "createWorkoutPlan" /\ call.pc = "insertDays"
       /\ workoutPlanDays' = workoutPlanDays \cup newDays
       /\ daySeq' = daySeq + Len(call.days)
       /\ inFlight' = [inFlight EXCEPT ![c] = [call EXCEPT !.pc = "returned"]]
       /\ last' = [op |-> "createWorkoutPlan", user |-> call.user, id |-> call.newPlan,
                   args |-> [plan |-> call.plan, days |-> call.days],
                   res |-> IF Len(call.days) = 0 THEN "error" ELSE "row", ret |-> NoDay]
       /\ UNCHANGED <<formExercises, goalVars, workoutPlans, planSeq, workoutVars, mealVars>>

\* two create-plan requests, each with at most one day
RaceCreateCall ==
    \E c \in Calls, u \in Users, plan \in {NoColumns} \cup [isActive : BOOLEAN],
       days \in {list \in DayLists : Len(list) <= 1} :
          callCreateWorkoutPlan(c, u, plan, days)

RaceCreateDeactivate == \E c \in Calls : createDeactivate(c)

RaceCreateInsertPlan == \E c \in Calls : createInsertPlan(c)

RaceCreateInsertDays == \E c \in Calls : createInsertDays(c)

NextCreateRace ==
    \/ RaceCreateCall
    \/ RaceCreateDeactivate
    \/ RaceCreateInsertPlan
    \/ RaceCreateInsertDays

SpecCreateRace == Init /\ [][NextCreateRace]_vars

\* a delete that would spare what the call did not select beforehand
ExercisesSurvivingUnselected(call) ==
    {e \in exercises : e.id \notin call.existingExercises}

\* await db.delete(exercises).where(eq(exercises.workoutId, id))
ExercisesSurviving(call) == ExercisesAfterDelete(call.id)

\* the call's next position once the sets of exercise i are all inserted
AfterExercise(call, i) ==
    IF i = Len(call.exerciseData) THEN "returned" ELSE "insertExercise"

UpdateWorkoutResult(call, res) ==
    [op |-> "updateWorkout", user |-> call.user, id |-> call.id,
     args |-> [workout |-> call.workout, exerciseData |-> {call.exerciseData}],
     res |-> res, ret |-> NoDay]

\* exerciseData is the list supplied; exercisesWithSets holds the ids of the
\* exercise rows the call has inserted, which it returns
callUpdateWorkout(c, id, userId, workout, list) ==
    /\ inFlight[c].pc = "idle"
    /\ inFlight' = [inFlight EXCEPT ![c] =
                       [op |-> "updateWorkout", pc |-> "updateRow",
                        user |-> userId, id |-> id, workout |-> workout,
                        exerciseData |-> list,
                        existingExercises |-> {}, toDelete |-> {},
                        i |-> 0, j |-> 0, newExercise |-> NoId,
                        exercisesWithSets |-> {}, res |-> ""]]
    /\ UNCHANGED <<formExercises, storageVars, last>>

\* const [updatedWorkout] = await db.update(workouts)...; the two returns
\* that come before the replacement
updateRow(c) ==
    LET call == inFlight[c]
        updated == OwnedWorkouts(call.id, call.user)
        replaces == updated # {} /\ WritesExercises(call.workout, {call.exerciseData})
    IN /\ call.op = "updateWorkout" /\ call.pc = "updateRow"
       /\ workouts' = {IF w \in updated THEN SetColumns(w, call.workout) ELSE w
                         : w \in workouts}
       /\ inFlight' = [inFlight EXCEPT ![c] =
                          [call EXCEPT !.pc = IF replaces THEN "selectExisting" ELSE "returned",
                                       !.res = IF replaces THEN ""
                                               ELSE IF updated = {} THEN "undefined" ELSE "row"]]
       /\ IF replaces THEN UNCHANGED last
          ELSE last' = UpdateWorkoutResult(call, IF updated = {} THEN "undefined" ELSE "row")
       /\ UNCHANGED <<formExercises, goalVars, exercises, sets, workoutSeq, exerciseSeq, setSeq, planVars, mealVars>>

\* const existingExercises = await db.select({ id: exercises.id })...
updateSelectExisting(c) ==
    LET call == inFlight[c]
        existingIds == {e.id : e \in {x \in exercises : x.workoutId = call.id}}
    IN /\ call.op = "updateWorkout" /\ call.pc = "selectExisting"
       /\ inFlight' = [inFlight EXCEPT ![c] =
                          [call EXCEPT !.existingExercises = existingIds,
                                       !.toDelete = existingIds,
                                       !.pc = IF existingIds = {} THEN "deleteExercises"
                                              ELSE "deleteSets"]]
       /\ UNCHANGED <<formExercises, storageVars, last>>

\* one turn of the loop: await db.delete(sets).where(eq(sets.exerciseId,
\* exercise.id)); the select gave the rows in an order of the store's choosing
updateDeleteSets(c) ==
    LET call == inFlight[c]
    IN /\ call.op = "updateWorkout" /\ call.pc = "deleteSets"
       /\ \E exercise \in call.toDelete :
             /\ sets' = SetsAfterDelete({exercise})
             /\ inFlight' = [inFlight EXCEPT ![c] =
                                [call EXCEPT !.toDelete = @ \ {exercise},
                                             !.pc = IF call.toDelete = {exercise}
                                                      THEN "deleteExercises" ELSE "deleteSets"]]
       /\ UNCHANGED <<formExercises, goalVars, workouts, exercises, workoutSeq, exerciseSeq, setSeq, planVars,
                      mealVars, last>>

\* await db.delete(exercises).where(eq(exercises.workoutId, id)); the sets
\* of a deleted exercise go with it (ON DELETE CASCADE)
updateDeleteExercises(c) ==
    LET call == inFlight[c]
        gone == {e.id : e \in exercises \ ExercisesSurviving(call)}
        next == AfterExercise(call, 0)
    IN /\ call.op = "updateWorkout" /\ call.pc = "deleteExercises"
       /\ exercises' = ExercisesSurviving(call)
       /\ sets' = SetsAfterDelete(gone)
       /\ inFlight' = [inFlight EXCEPT ![c] =
                          [call EXCEPT !.pc = next,
                                       !.res = IF next = "returned" THEN "row" ELSE ""]]
       /\ IF next = "returned" THEN last' = UpdateWorkoutResult(call, "row")
          ELSE UNCHANGED last
       /\ UNCHANGED <<formExercises, goalVars, workouts, workoutSeq, exerciseSeq, setSeq, planVars, mealVars>>

\* const [newExercise] = await db.insert(exercises).values({...}).returning()
updateInsertExercise(c) ==
    LET call == inFlight[c]
        i == call.i + 1
        exerciseInput == call.exerciseData[i]
        newExercise == [id |-> exerciseSeq,
                        workoutId |-> call.id,
                        name |-> exerciseInput.name,
                        category |-> CategoryOrNull(exerciseInput)]
        next == IF Len(exerciseInput.sets) = 0 THEN AfterExercise(call, i) ELSE "insertSet"
    IN /\ call.op = "updateWorkout" /\ call.pc = "insertExercise"
       /\ exercises' = exercises \cup {newExercise}
       /\ exerciseSeq' = exerciseSeq + 1
       /\ inFlight' = [inFlight EXCEPT ![c] =
                          [call EXCEPT !.i = i, !.j = 0, !.newExercise = newExercise.id,
                                       !.exercisesWithSets = @ \cup {newExercise.id},
                                       !.pc = next,
                                       !.res = IF next = "returned" THEN "row" ELSE ""]]
       /\ IF next = "returned" THEN last' = UpdateWorkoutResult(call, "row")
          ELSE UNCHANGED last
       /\ UNCHANGED <<formExercises, goalVars, workouts, sets, workoutSeq, setSeq, planVars, mealVars>>

\* const [newSet] = await db.insert(sets).values({...}).returning(); the
\* insert is refused when the exercise row is no longer there (foreign key)
updateInsertSet(c) ==
    LET call == inFlight[c]
        j == call.j + 1
        setData == call.exerciseData[call.i].sets[j]
        newSet == [id |-> setSeq,
                   exerciseId |-> call.newExercise,
                   setNumber |-> setData.setNumber,
                   reps |-> setData.reps,
                   weight |-> DecimalWeight(setData),
                   isWarmup |-> WarmupOrFalse(setData)]
        refused == \A e \in exercises : e.id # call.newExercise
        next == IF refused THEN "returned"
                ELSE IF j = Len(call.exerciseData[call.i].sets)
                       THEN AfterExercise(call, call.i) ELSE "insertSet"
    IN /\ call.op = "updateWorkout" /\ call.pc = "insertSet"
       /\ sets' = IF refused THEN sets ELSE sets \cup {newSet}
       /\ setSeq' = setSeq + 1
       /\ inFlight' = [inFlight EXCEPT ![c] =
                          [call EXCEPT !.j = j, !.pc = next,
                                       !.res = IF next # "returned" THEN ""
                                               ELSE IF refused THEN "error" ELSE "row"]]
       /\ IF next = "returned"
            THEN last' = UpdateWorkoutResult(call, IF refused THEN "error" ELSE "row")
            ELSE UNCHANGED last
       /\ UNCHANGED <<formExercises, goalVars, workouts, exercises, workoutSeq, exerciseSeq, planVars, mealVars>>

\* one strength workout and two update requests for it
RaceWorkout ==
    /\ workoutSeq = 1
    /\ \E u \in Users, exerciseData \in OneExercise :
          createWorkout(u, [duration |-> 60, date |-> MaxDate, workoutType |-> "strength"],
                        exerciseData)

RaceUpdateCall ==
    \E c \in Calls, u \in Users, workout \in UpdateWorkoutInputs, list \in ExerciseLists :
        callUpdateWorkout(c, 1, u, workout, list)

RaceUpdateRow == \E c \in Calls : updateRow(c)

RaceUpdateSelectExisting == \E c \in Calls : updateSelectExisting(c)

RaceUpdateDeleteSets == \E c \in Calls : updateDeleteSets(c)

RaceUpdateDeleteExercises == \E c \in Calls : updateDeleteExercises(c)

RaceUpdateInsertExercise == \E c \in Calls : updateInsertExercise(c)

RaceUpdateInsertSet == \E c \in Calls : updateInsertSet(c)

NextUpdateRace ==
    \/ RaceWorkout
    \/ RaceUpdateCall
    \/ RaceUpdateRow
    \/ RaceUpdateSelectExisting
    \/ RaceUpdateDeleteSets
    \/ RaceUpdateDeleteExercises
    \/ RaceUpdateInsertExercise
    \/ RaceUpdateInsertSet

SpecUpdateRace == Init /\ [][NextUpdateRace]_vars

(* ------------------------------------------------- strength-workout form *)
\* formExercises is the form's `exercises` state: the exercises entered so
\* far, each with its list of sets.  Positions are 0-based as in the code.
MaxFormExercises == 2
MaxFormSets == 3

FormNames == {"Squat", "Bench"}

\* the set a new exercise starts with
FirstSet == [setNumber |-> 1, reps |-> 10, weight |-> 0, isWarmup |-> FALSE]

FormCall(op, args) ==
    [op |-> op, user |-> 0, id |-> NoId, args |-> args, res |-> "", ret |-> NoDay]

\* the sets as splice leaves them, without the renumbering
NotRenumbered(setList) == setList

\* sets.forEach((set, index) => { set.setNumber = index + 1; })
Renumbered(setList) ==
    [k \in 1..Len(setList) |-> [setList[k] EXCEPT !.setNumber = k]]

\* sets.splice(setIndex, 1)
Spliced(setList, setIndex) ==
    [k \in 1..(Len(setList) - 1) |-> IF k <= setIndex THEN setList[k] ELSE setList[k + 1]]

addExercise(name) ==
    /\ name # ""
    /\ formExercises' = Append(formExercises, [name |-> name, sets |-> <<FirstSet>>])
    /\ last' = FormCall("addExercise", [name |-> name])
    /\ UNCHANGED <<storageVars, inFlight>>

\* lastSet?.reps || 10, lastSet?.weight || 0
addSet(exerciseIndex) ==
    LET exercise == formExercises[exerciseIndex + 1]
        newSetNumber == Len(exercise.sets) + 1
        lastSet == exercise.sets[Len(exercise.sets)]
        newSet == [setNumber |-> newSetNumber,
                   reps |-> IF Len(exercise.sets) = 0 \/ lastSet.reps = 0
                              THEN 10 ELSE lastSet.reps,
                   weight |-> IF Len(exercise.sets) = 0 THEN 0 ELSE lastSet.weight,
                   isWarmup |-> FALSE]
    IN /\ formExercises' = [formExercises EXCEPT ![exerciseIndex + 1].sets = Append(@, newSet)]
       /\ last' = FormCall("addSet", [exerciseIndex |-> exerciseIndex])
       /\ UNCHANGED <<storageVars, inFlight>>

removeSet(exerciseIndex, setIndex) ==
    /\ formExercises' = [formExercises EXCEPT ![exerciseIndex + 1].sets =
                                              Renumbered(Spliced(@, setIndex))]
    /\ last' = FormCall("removeSet", [exerciseIndex |-> exerciseIndex, setIndex |-> setIndex])
    /\ UNCHANGED <<storageVars, inFlight>>

\* updateSet(exerciseIndex, setIndex, "reps", value)
updateSet(exerciseIndex, setIndex, value) ==
    /\ formExercises' = [formExercises EXCEPT
                            ![exerciseIndex + 1].sets[setIndex + 1].reps = value]
    /\ last' = FormCall("updateSet", [exerciseIndex |-> exerciseIndex, setIndex |-> setIndex])
    /\ UNCHANGED <<storageVars, inFlight>>

AddExercise ==
    /\ Len(formExercises) < MaxFormExercises
    /\ \E name \in FormNames : addExercise(name)

AddSet ==
    \E exerciseIndex \in 0..(Len(formExercises) - 1) :
        /\ Len(formExercises[exerciseIndex + 1].sets) < MaxFormSets
        /\ addSet(exerciseIndex)

RemoveSet ==
    \E exerciseIndex \in 0..(Len(formExercises) - 1) :
        \E setIndex \in 0..(Len(formExercises[exerciseIndex + 1].sets) - 1) :
            removeSet(exerciseIndex, setIndex)

UpdateSet ==
    \E exerciseIndex \in 0..(Len(formExercises) - 1) :
        \E setIndex \in 0..(Len(formExercises[exerciseIndex + 1].sets) - 1) :
            \E value \in {5, 8} : updateSet(exerciseIndex, setIndex, value)

NextForm ==
    \/ AddExercise
    \/ AddSet
    \/ RemoveSet
    \/ UpdateSet

SpecForm == Init /\ [][NextForm]_vars

(* ------------------------------------------------------- workout reads *)
\* { ...row, field: value }
With(row, field, value) ==
    [f \in DOMAIN row \cup {field} |-> IF f = field THEN value ELSE row[f]]

\* the result lists a select without ORDER BY may return: the rows in any
\* order
InAnyOrder(rows) ==
    {list \in [1..Cardinality(rows) -> rows] :
        \A i, j \in 1..Cardinality(rows) : i # j => list[i] # list[j]}

\* .orderBy(sets.setNumber): ascending, rows of equal setNumber in any order
OrderedBySetNumber(setRows) ==
    {list \in InAnyOrder(setRows) :
        \A i, j \in 1..Len(list) : i < j => list[i].setNumber <= list[j].setNumber}

\* .orderBy(desc(workouts.date)): latest first, rows of one date in any order
OrderedByDateDesc(rows) ==
    {list \in InAnyOrder(rows) :
        \A i, j \in 1..Len(list) : i < j => list[i].date >= list[j].date}

\* .limit(limit)
Limited(list, limit) ==
    SubSeq(list, 1, IF Len(list) <= limit THEN Len(list) ELSE limit)

\* exerciseList.map(async (exercise) => ({ ...exercise, sets: setList }))
ExercisesWithSets(workout) ==
    LET exerciseList == {e \in exercises : e.workoutId = workout.id}
        withSets(e) ==
            {With(e, "sets", setList) :
                setList \in OrderedBySetNumber({t \in sets : t.exerciseId = e.id})}
        all == UNION {withSets(e) : e \in exerciseList}
    IN {list \in [1..Cardinality(exerciseList) -> all] :
           \A i, j \in 1..Cardinality(exerciseList) : i # j => list[i].id # list[j].id}

\* if (workout.workoutType === "strength") return { ...workout, exercises }
\* else return workout
Attached(workout) ==
    IF workout.workoutType = "strength"
      THEN {With(workout, "exercises", exercisesWithSets) :
               exercisesWithSets \in ExercisesWithSets(workout)}
      ELSE {workout}

\* the values getWorkout may return; NoColumns stands for undefined
getWorkoutResults(id, userId) ==
    IF OwnedWorkouts(id, userId) = {} THEN {NoColumns}
    ELSE UNION {Attached(workout) : workout \in OwnedWorkouts(id, userId)}

getWorkout(id, userId) ==
    /\ \E found \in getWorkoutResults(id, userId) :
          last' = [op |-> "getWorkout", user |-> userId, id |-> id,
                   args |-> NoColumns,
                   res |-> IF found = NoColumns THEN "undefined" ELSE "row",
                   ret |-> found]
    /\ UNCHANGED <<storageVars, inFlight, formExercises>>

DefaultLimit == 50

\* the values getWorkouts may return
getWorkoutsResults(userId, limit) ==
    LET owned == {w \in workouts : w.userId = userId}
        each == UNION {Attached(w) : w \in owned}
    IN UNION {{found \in [1..Len(Limited(workoutList, limit)) -> each] :
                  \A i \in 1..Len(Limited(workoutList, limit)) :
                      found[i] \in Attached(workoutList[i])}
              : workoutList \in OrderedByDateDesc(owned)}

getWorkouts(userId, limit) ==
    /\ \E found \in getWorkoutsResults(userId, limit) :
          last' = [op |-> "getWorkouts", user |-> userId, id |-> NoId,
                   args |-> [limit |-> limit], res |-> "rows", ret |-> found]
    /\ UNCHANGED <<storageVars, inFlight, formExercises>>

\* what createWorkout and a strength updateWorkout return as exercises:
\* exercisesWithSets, each new exercise row with its createdSets in the
\* order they were inserted
CreatedExercises(list, workoutId) ==
    [i \in 1..Len(list) |->
        With(CHOOSE e \in ExerciseRows(list, workoutId) : e.id = exerciseSeq + i - 1,
             "sets",
             [j \in 1..Len(list[i].sets) |->
                 CHOOSE t \in SetRows(list) :
                     t.id = setSeq + SetsBefore(list, i) + j - 1])]

\* what updateWorkout returns: undefined (NoColumns) when no row matched,
\* { ...updatedWorkout, exercises: exercisesWithSets } when it replaced the
\* exercises, else updatedWorkout
updateWorkoutReturn(id, userId, workout, exerciseData) ==
    IF OwnedWorkouts(id, userId) = {} THEN NoColumns
    ELSE LET updatedWorkout ==
                 SetColumns(CHOOSE w \in OwnedWorkouts(id, userId) : TRUE, workout)
         IN IF WritesExercises(workout, exerciseData)
              THEN With(updatedWorkout, "exercises",
                        CreatedExercises(TheList(exerciseData), id))
              ELSE updatedWorkout

\* the workout operations and the two reads; the workouts carry any date
ReadLists == {list \in ExerciseLists : Len(list) = 0 \/ list[Len(list)].name = "Bench"}

ReadData == {{}} \cup {{list} : list \in ReadLists}

ReadCreateWorkout ==
    /\ workoutSeq <= MaxWorkouts
    /\ \E u \in Users, workout \in InsertWorkout, exerciseData \in ReadData :
          /\ workout.duration = 60
          /\ Has(workout, "workoutType")
          /\ ~Has(workout, "planId")
          /\ createWorkout(u, workout, exerciseData)
          /\ exerciseSeq' - 1 <= MaxExerciseRows
          /\ setSeq' - 1 <= MaxSetRows

ReadUpdateWorkout ==
    \E id \in WorkoutIds, u \in Users, workout \in UpdateWorkoutInputs,
       exerciseData \in ReadData :
          /\ updateWorkout(id, u, workout, exerciseData)
          /\ exerciseSeq' - 1 <= MaxExerciseRows
          /\ setSeq' - 1 <= MaxSetRows

GetWorkout == \E id \in WorkoutIds, u \in Users : getWorkout(id, u)

GetWorkouts == \E u \in Users, limit \in {1, DefaultLimit} : getWorkouts(u, limit)

NextReads ==
    \/ ReadCreateWorkout
    \/ ReadUpdateWorkout
    \/ DeleteWorkout
    \/ GetWorkout
    \/ GetWorkouts

SpecReads == Init /\ [][NextReads]_vars

(* --------------------------------------------------------------- stats *)
MaxMeals == 2          \* meals ever inserted (SpecMealStats)

MealIds == 1..(MaxMeals + 1)

\* the window lengths the stats routes ask for when the query names none
StatDays == {1, 7}

\* const since = new Date(); since.setDate(since.getDate() - days)
Since(now, days) == now - days

\* sum(column) of a column that holds no NULL
RECURSIVE Total(_, _)
Total(rows, column) ==
    IF rows = {} THEN 0
    ELSE LET row == CHOOSE r \in rows : TRUE
         IN row[column] + Total(rows \ {row}, column)

\* a sum that takes a NULL for the number its marker reads as
SumCountingNull(rows, column, null) == Total(rows, column)

\* coalesce(sum(column), 0) of a nullable column: NULLs are skipped
Sum(rows, column, null) == Total({r \in rows : r[column] # null}, column)

\* avg(column)::int over count rows: the quotient rounded to the nearest
\* integer, a half away from zero
RoundedAvg(sum, count) ==
    IF sum >= 0 THEN (2 * sum + count) \div (2 * count)
    ELSE 0 - ((2 * (0 - sum) + count) \div (2 * count))

\* and(eq(workouts.userId, userId), gte(workouts.date, since))
WorkoutsInWindow(userId, since) ==
    {w \in workouts : w.userId = userId /\ w.date >= since}

getWorkoutStatsResult(userId, days, now) ==
    LET rows == WorkoutsInWindow(userId, Since(now, days))
        minutes == Total(rows, "duration")
    IN [totalWorkouts |-> Cardinality(rows),
        totalMinutes |-> minutes,
        totalCalories |-> Sum(rows, "caloriesBurned", NoCalories),
        avgDuration |-> IF rows = {} THEN 0 ELSE RoundedAvg(minutes, Cardinality(rows))]

getWorkoutStats(userId, days) ==
    /\ \E now \in Dates :
          last' = [op |-> "getWorkoutStats", user |-> userId, id |-> NoId,
                   args |-> [days |-> days, now |-> now], res |-> "row",
                   ret |-> getWorkoutStatsResult(userId, days, now)]
    /\ UNCHANGED <<storageVars, inFlight, formExercises>>

\* and(eq(meals.userId, userId), gte(meals.date, since))
MealsInWindow(userId, since) ==
    {m \in meals : m.userId = userId /\ m.date >= since}

\* a percentage cut off below instead of rounded
PercentTruncated(macro, total) == {(100 * macro) \div total}

\* Math.round((macro / total) * 100) for total > 0: the nearest integer;
\* when the quotient lies halfway between two integers the floating-point
\* product falls on either side, so both neighbours are results
PercentResults(macro, total) ==
    LET below == (100 * macro) \div total
        rest == 100 * macro - below * total
    IN IF 2 * rest < total THEN {below}
       ELSE IF 2 * rest > total THEN {below + 1}
       ELSE {below, below + 1}

\* total > 0 ? { ... } : { protein: 0, carbs: 0, fat: 0 }
nutritionBreakdownResults(totalProtein, totalCarbs, totalFat) ==
    LET total == totalProtein + totalCarbs + totalFat
    IN IF total > 0
         THEN [protein : PercentResults(totalProtein, total),
               carbs : PercentResults(totalCarbs, total),
               fat : PercentResults(totalFat, total)]
         ELSE {[protein |-> 0, carbs |-> 0, fat |-> 0]}

getMealStatsResults(userId, days, now) ==
    LET rows == MealsInWindow(userId, Since(now, days))
        calories == Total(rows, "calories")
    IN {[totalMeals |-> Cardinality(rows),
         totalCalories |-> calories,
         avgCalories |-> IF rows = {} THEN 0 ELSE RoundedAvg(calories, Cardinality(rows)),
         nutritionBreakdown |-> nutritionBreakdown]
          : nutritionBreakdown \in
              nutritionBreakdownResults(Sum(rows, "protein", NoMacro),
                                        Sum(rows, "carbs", NoMacro),
                                        Sum(rows, "fat", NoMacro))}

getMealStats(userId, days) ==
    /\ \E now \in Dates : \E stats \in getMealStatsResults(userId, days, now) :
          last' = [op |-> "getMealStats", user |-> userId, id |-> NoId,
                   args |-> [days |-> days, now |-> now], res |-> "row",
                   ret |-> stats]
    /\ UNCHANGED <<storageVars, inFlight, formExercises>>

\* meals of any date and macros, and the meal stats
StatsCreateMeal ==
    /\ mealSeq <= MaxMeals
    /\ \E u \in Users, meal \in InsertMeal :
          meal.calories = 300 /\ createMeal(u, meal)

StatsDeleteMeal == \E id \in MealIds, u \in Users : deleteMeal(id, u)

GetMealStats == \E u \in Users, days \in StatDays : getMealStats(u, days)

NextMealStats ==
    \/ StatsCreateMeal
    \/ StatsDeleteMeal
    \/ GetMealStats

SpecMealStats == Init /\ [][NextMealStats]_vars

\* cardio workouts of any date, duration and calories, and the workout stats
StatsCreateWorkout ==
    /\ workoutSeq <= MaxWorkouts
    /\ \E u \in Users, workout \in InsertWorkout :
          /\ ~Has(workout, "workoutType")
          /\ createWorkout(u, workout, {})

GetWorkoutStats == \E u \in Users, days \in StatDays : getWorkoutStats(u, days)

NextWorkoutStats ==
    \/ StatsCreateWorkout
    \/ DeleteWorkout
    \/ GetWorkoutStats

SpecWorkoutStats == Init /\ [][NextWorkoutStats]_vars

(* ---------------------------------------------------------- user goals *)
MaxGoalRows == 2       \* userGoals rows ever inserted

\* the goals of a PUT body: insertUserGoalsSchema makes every column optional
GoalInputs == {NoColumns, [weeklyWorkoutGoal |-> 5]}

\* the defaults the GET route creates
DefaultGoals ==
    [weeklyWorkoutGoal |-> 4, dailyCalorieGoal |-> 2000, hydrationGoal |-> 8]

\* column defaults of user_goals
NewGoalsRow(id, userId, goals, now) ==
    [id |-> id,
     userId |-> userId,
     weeklyWorkoutGoal |-> IF Has(goals, "weeklyWorkoutGoal")
                             THEN goals.weeklyWorkoutGoal
                             ELSE DefaultGoals.weeklyWorkoutGoal,
     updatedAt |-> now]

\* db.insert(userGoals).values(goals): user_id carries no unique constraint
InsertGoalsRow(table, row) == table \cup {row}

\* select().from(userGoals).where(eq(userGoals.userId, userId))
GoalsOf(userId) == {g \in userGoals : g.userId = userId}

GoalsResult(c, res) ==
    [op |-> inFlight[c].op, user |-> inFlight[c].user, id |-> NoId,
     args |-> NoColumns, res |-> res, ret |-> NoDay]

\* GET /api/user-goals is received
callGetUserGoals(c, userId) ==
    /\ inFlight[c] = NoCall
    /\ inFlight' = [inFlight EXCEPT ![c] =
          [op |-> "getUserGoals", pc |-> "select", user |-> userId,
           goalsData |-> DefaultGoals]]
    /\ UNCHANGED <<storageVars, last, formExercises>>

\* PUT /api/user-goals is received and its body parsed
callPutUserGoals(c, userId, goalsData) ==
    /\ inFlight[c] = NoCall
    /\ inFlight' = [inFlight EXCEPT ![c] =
          [op |-> "putUserGoals", pc |-> "select", user |-> userId,
           goalsData |-> goalsData]]
    /\ UNCHANGED <<storageVars, last, formExercises>>

\* const goals = await storage.getUserGoals(req.userId): the GET answers
\* with the row it found, the PUT goes on to update it, and both go on to
\* create one when none was found
goalsSelect(c) ==
    LET call == inFlight[c]
    IN /\ call.pc = "select"
       /\ IF GoalsOf(call.user) = {}
            THEN /\ inFlight' = [inFlight EXCEPT ![c].pc = "create"]
                 /\ UNCHANGED last
            ELSE IF call.op = "getUserGoals"
              THEN /\ inFlight' = [inFlight EXCEPT ![c] = NoCall]
                   /\ last' = GoalsResult(c, "row")
              ELSE /\ inFlight' = [inFlight EXCEPT ![c].pc = "update"]
                   /\ UNCHANGED last
       /\ UNCHANGED <<storageVars, formExercises>>

\* await storage.createUserGoals({ ...goalsData, userId })
goalsCreate(c) ==
    LET call == inFlight[c]
    IN /\ call.pc = "create"
       /\ \E now \in Times :
             userGoals' = InsertGoalsRow(userGoals,
                              NewGoalsRow(goalSeq, call.user, call.goalsData, now))
       /\ goalSeq' = goalSeq + 1
       /\ inFlight' = [inFlight EXCEPT ![c] = NoCall]
       /\ last' = GoalsResult(c, "row")
       /\ UNCHANGED <<planVars, workoutVars, mealVars, formExercises>>

\* await storage.updateUserGoals(userId, goalsData):
\* .set({ ...goals, updatedAt: new Date() }).where(eq(userGoals.userId, userId))
goalsUpdate(c) ==
    LET call == inFlight[c]
    IN /\ call.pc = "update"
       /\ \E now \in Times :
             userGoals' =
                {IF g.userId = call.user
                   THEN SetColumns(g, Merged(call.goalsData, [updatedAt |-> now]))
                   ELSE g : g \in userGoals}
       /\ inFlight' = [inFlight EXCEPT ![c] = NoCall]
       /\ last' = GoalsResult(c, IF GoalsOf(call.user) = {} THEN "undefined" ELSE "row")
       /\ UNCHANGED <<goalSeq, planVars, workoutVars, mealVars, formExercises>>

GetUserGoals == \E c \in Calls, u \in Users : callGetUserGoals(c, u)

PutUserGoals ==
    \E c \in Calls, u \in Users, goalsData \in GoalInputs :
        callPutUserGoals(c, u, goalsData)

GoalsSelect == \E c \in Calls : goalsSelect(c)

GoalsCreate == goalSeq <= MaxGoalRows /\ \E c \in Calls : goalsCreate(c)

GoalsUpdate == \E c \in Calls : goalsUpdate(c)

NextGoals ==
    \/ GetUserGoals
    \/ PutUserGoals
    \/ GoalsSelect
    \/ GoalsCreate
    \/ GoalsUpdate

SpecGoals == Init /\ [][NextGoals]_vars

\* the breakdown as a function of the three sums: any sums up to
\* MaxMacroSum are handed to it
MaxMacroSum == 20

MacroSums ==
    [totalProtein : 0..MaxMacroSum, totalCarbs : 0..MaxMacroSum,
     totalFat : 0..MaxMacroSum]

InitBreakdown ==
    /\ workoutPlans = {}
    /\ workoutPlanDays = {}
    /\ planSeq = 1
    /\ daySeq = 1
    /\ workouts = {}
    /\ exercises = {}
    /\ sets = {}
    /\ meals = {}
    /\ workoutSeq = 1
    /\ exerciseSeq = 1
    /\ setSeq = 1
    /\ mealSeq = 1
    /\ userGoals = {}
    /\ goalSeq = 1
    /\ inFlight = [c \in Calls |-> NoCall]
    /\ formExercises = <<>>
    /\ \E stats \in MacroSums :
          last = [op |-> "stats", user |-> 0, id |-> NoId, args |-> stats,
                  res |-> "", ret |-> NoDay]

NutritionBreakdown ==
    /\ last.op = "stats"
    /\ \E nutritionBreakdown \in
             nutritionBreakdownResults(last.args.totalProtein, last.args.totalCarbs,
                                       last.args.totalFat) :
          last' = [last EXCEPT !.op = "nutritionBreakdown", !.res = "row",
                               !.ret = nutritionBreakdown]
    /\ UNCHANGED <<storageVars, inFlight, formExercises>>

NextBreakdown == NutritionBreakdown

SpecBreakdown == InitBreakdown /\ [][NextBreakdown]_vars

(* =============================================================== claims *)
\* the step just taken was this storage call
Ran(op) == last'.op = op

PlanRow(table, id) == CHOOSE p \in table : p.id = id

\* NextDayIndex applied k times: k consecutive advances of one plan
RECURSIVE Advanced(_, _, _)
Advanced(currentDayIndex, dayCount, k) ==
    IF k = 0 THEN currentDayIndex
    ELSE Advanced(NextDayIndex(currentDayIndex, dayCount), dayCount, k - 1)

\* C1: in every reachable state each user owns at most one plan with
\* isActive = true.
C1_AtMostOneActivePlan ==
    \A u \in Users : Cardinality({p \in workoutPlans : p.userId = u /\ p.isActive}) <= 1

\* what createWorkoutPlan is to have done for the caller: every formerly
\* active plan inactive, the new plan active, exactly one plan active, other
\* users' plans as they were
C2_Effect ==
    LET u == last'.user
        wasActive == {p \in workoutPlans : p.userId = u /\ p.isActive}
    IN /\ \A a \in wasActive : ~PlanRow(workoutPlans', a.id).isActive
       /\ PlanRow(workoutPlans', last'.id).isActive
       /\ Cardinality({p \in workoutPlans' : p.userId = u /\ p.isActive}) = 1
       /\ \A p \in workoutPlans : p.userId # u => p \in workoutPlans'

C2_HadActivePlan ==
    \E p \in workoutPlans : p.userId = last'.user /\ p.isActive

C3_AdvanceWrapsAndCycles ==
    [][(/\ Ran("advanceWorkoutPlan")
        /\ \E p \in workoutPlans : p.id = last'.id /\ p.userId = last'.user
        /\ Cardinality({d \in workoutPlanDays : d.planId = last'.id}) >= 1)
          => LET before == PlanRow(workoutPlans, last'.id)
                 after == PlanRow(workoutPlans', last'.id)
                 n == Cardinality({d \in workoutPlanDays : d.planId = last'.id})
             IN /\ after.currentDayIndex = Mod(before.currentDayIndex + 1, n)
                /\ after.lastWorkoutDate = last'.args.date
                /\ Advanced(before.currentDayIndex, n, n) = before.currentDayIndex]_vars

\* C4: every stored plan has 0 <= currentDayIndex < dayCount, dayCount being
\* the number of days stored for it.
C4_IndexWithinDays ==
    \A p \in workoutPlans :
        /\ 0 <= p.currentDayIndex
        /\ p.currentDayIndex < Cardinality({d \in workoutPlanDays : d.planId = p.id})

\* C8: createWorkoutPlan with n day specifications stores exactly n days for
\* the new plan, the day at list position i (0-based) with dayIndex i,
\* whatever dayIndex or planId the input day carried.
C8_DaysIndexedByPosition ==
    last.op = "createWorkoutPlan" =>
        LET days == last.args.days
            stored == {d \in workoutPlanDays : d.planId = last.id}
        IN /\ Cardinality(stored) = Len(days)
           /\ {d.dayIndex : d \in stored} = 0..(Len(days) - 1)
           /\ \A i \in 1..Len(days) :
                 \E d \in stored : d.name = days[i].name /\ d.dayIndex = i - 1

C8_Witness ==
    /\ last.op = "createWorkoutPlan"
    /\ Len(last.args.days) >= 2
    /\ \E i \in 1..Len(last.args.days) :
          /\ last.args.days[i].dayIndex # i - 1
          /\ last.args.days[i].planId # last.id
    /\ \E d \in workoutPlanDays : d.planId = last.id /\ d.dayIndex = 1

\* C9: advanceWorkoutPlan on a plan id the caller does not own (missing, or
\* another user's) completes without error and changes nothing in storage.
C9_AdvanceOfForeignPlanIsNoop ==
    [][(/\ Ran("advanceWorkoutPlan")
        /\ ~\E p \in workoutPlans : p.id = last'.id /\ p.userId = last'.user)
          => /\ last'.res # "error"
             /\ UNCHANGED storageVars]_vars

C9_Witness ==
    /\ last.op = "advanceWorkoutPlan"
    /\ last.res = "noop"
    /\ \E p \in workoutPlans :
          /\ p.id = last.id /\ p.userId # last.user
          /\ Cardinality({d \in workoutPlanDays : d.planId = p.id}) >= 1

\* C10: getNextWorkoutDay returns absence when the user has no active plan,
\* otherwise the day of the user's active plan whose dayIndex is that plan's
\* currentDayIndex; after an advance of the active plan it returns the day at
\* index (previous index + 1) mod dayCount.  (A plan with no day at its
\* currentDayIndex has no such day to return; the call then returns absence.)
C10_NextDayFollowsCursor ==
    [][/\ Ran("getNextWorkoutDay") =>
            LET active == {p \in workoutPlans' : p.userId = last'.user /\ p.isActive}
            IN IF active = {} THEN last'.ret = NoDay
               ELSE \E p \in active :
                       IF \E d \in workoutPlanDays' :
                             d.planId = p.id /\ d.dayIndex = p.currentDayIndex
                         THEN /\ last'.ret \in workoutPlanDays'
                              /\ last'.ret.planId = p.id
                              /\ last'.ret.dayIndex = p.currentDayIndex
                         ELSE last'.ret = NoDay
       /\ (/\ Ran("advanceWorkoutPlan")
           /\ \E p \in workoutPlans :
                 p.id = last'.id /\ p.userId = last'.user /\ p.isActive
           /\ Cardinality({d \in workoutPlanDays : d.planId = last'.id}) >= 1)
             => LET before == PlanRow(workoutPlans, last'.id)
                    n == Cardinality({d \in workoutPlanDays : d.planId = last'.id})
                IN \A u \in Users : u = last'.user =>
                       \A d \in getNextWorkoutDayResults(u)' :
                           /\ d \in workoutPlanDays'
                           /\ d.planId = last'.id
                           /\ d.dayIndex = Mod(before.currentDayIndex + 1, n)]_vars

\* rows of a table in primary-key order, the order they were inserted in
RECURSIVE SortById(_)
SortById(rows) ==
    IF rows = {} THEN <<>>
    ELSE LET first == CHOOSE r \in rows : \A q \in rows : r.id <= q.id
         IN <<first>> \o SortById(rows \ {first})

\* C5: updateWorkout with workoutType = 'strength' and a replacement list L
\* on an existing strength workout leaves exactly the exercises of L stored
\* for the workout (same names, same order, each with exactly its supplied
\* sets, parented to this workout), and none of the workout's former
\* exercises and sets.
C5_StrengthUpdateReplacesChildren ==
    [][(/\ Ran("updateWorkout")
        /\ \E w \in workouts :
              w.id = last'.id /\ w.userId = last'.user /\ w.workoutType = "strength"
        /\ last'.args.workout.workoutType = "strength"
        /\ last'.args.exerciseData # {})
          => LET id == last'.id
                 L == CHOOSE list \in last'.args.exerciseData : TRUE
                 old == {e \in exercises : e.workoutId = id}
                 oldSets == {t \in sets : \E e \in old : t.exerciseId = e.id}
                 stored == SortById({e \in exercises' : e.workoutId = id})
             IN /\ Len(stored) = Len(L)
                /\ \A i \in 1..Len(L) :
                      LET given == L[i].sets
                          kept == SortById({t \in sets' : t.exerciseId = stored[i].id})
                      IN /\ stored[i].name = L[i].name
                         /\ Len(kept) = Len(given)
                         /\ \A j \in 1..Len(given) :
                               /\ kept[j].setNumber = given[j].setNumber
                               /\ kept[j].reps = given[j].reps
                               /\ kept[j].weight =
                                     IF "weight" \in DOMAIN given[j]
                                       THEN given[j].weight * 100 ELSE NoWeight
                               /\ kept[j].isWarmup =
                                     ("isWarmup" \in DOMAIN given[j] /\ given[j].isWarmup)
                /\ \A e \in old : \A x \in exercises' : x.id # e.id
                /\ \A t \in oldSets : \A x \in sets' : x.id # t.id
                /\ {e \in exercises' : e.workoutId # id} = {e \in exercises : e.workoutId # id}
                /\ \A t \in sets' : \E e \in exercises' : t.exerciseId = e.id]_vars

C5_Witness ==
    /\ last.op = "updateWorkout"
    /\ last.res = "row"
    /\ last.args.workout.workoutType = "strength"
    /\ \E list \in last.args.exerciseData : Len(list) >= 1
    /\ Cardinality(workouts) = workoutSeq - 1
    /\ Cardinality(exercises) < exerciseSeq - 1
    /\ Cardinality(sets) < setSeq - 1
    /\ \E e \in exercises : e.workoutId # last.id

\* the row the call names exists and belongs to the caller
C6_Owned(op, id, userId) ==
    CASE op \in {"updateWorkout", "deleteWorkout"} ->
            \E w \in workouts : w.id = id /\ w.userId = userId
      [] op \in {"updateMeal", "deleteMeal"} ->
            \E m \in meals : m.id = id /\ m.userId = userId
      [] op \in {"updateWorkoutPlan", "deleteWorkoutPlan"} ->
            \E p \in workoutPlans : p.id = id /\ p.userId = userId

RowsOf(userId) ==
    LET ws == {w \in workouts : w.userId = userId}
        es == {e \in exercises : \E w \in ws : e.workoutId = w.id}
        ps == {p \in workoutPlans : p.userId = userId}
    IN <<ws, es, {t \in sets : \E e \in es : t.exerciseId = e.id},
         {m \in meals : m.userId = userId},
         ps, {d \in workoutPlanDays : \E p \in ps : d.planId = p.id}>>

\* C7: what one user does never changes another user's rows (workouts with
\* their exercises and sets, meals, plans with their days).
C7_OtherUsersRowsUntouched ==
    [][\A b \in Users : b # last'.user => RowsOf(b)' = RowsOf(b)]_vars

\* the plan with id 1 is stored, active, and has a day with index i
C11_ActiveWithDay(i) ==
    \E p \in workoutPlans : p.id = 1 /\ p.isActive /\ i < DayCount(1)

C11_Cursor == (CHOOSE p \in workoutPlans : p.id = 1).currentDayIndex

\* C11: for an active plan with dayCount >= 1 whose owner keeps calling
\* advanceWorkoutPlan, every day index 0..dayCount-1 is the plan's
\* currentDayIndex infinitely often, and an advance from day i leads to day
\* (i + 1) mod dayCount: the days are visited in increasing order, wrapping.
C11_CursorCyclesForever ==
    /\ \A i \in 0..(MaxDays - 1) : []<>(C11_ActiveWithDay(i) => C11_Cursor = i)
    /\ [][(/\ Ran("advanceWorkoutPlan") /\ last'.res = "void"
            /\ C11_ActiveWithDay(0)
            /\ C11_Cursor \in 0..(DayCount(1) - 1))
              => C11_Cursor' = Mod(C11_Cursor + 1, DayCount(1))]_vars

C11_Witness ==
    /\ last.op = "advanceWorkoutPlan"
    /\ last.res = "void"
    /\ C11_ActiveWithDay(MaxDays - 1)
    /\ C11_Cursor = 0
    /\ \E p \in workoutPlans : p.id = 1 /\ p.lastWorkoutDate # NoDate

\* C12: createWorkout, updateWorkout and createWorkoutPlan are all-or-nothing:
\* a call that fails leaves every table exactly as it was before the call.
C12_FailedCallChangesNothing ==
    [][(/\ last'.op \in {"createWorkout", "updateWorkout", "createWorkoutPlan"}
        /\ last'.res = "error")
          => UNCHANGED <<workouts, exercises, sets, workoutPlans, workoutPlanDays>>]_vars

\* C13: a create-workout or update-workout request whose duration is zero
\* or negative is answered as a validation failure and storage is unchanged.
C13_NonPositiveDurationIsRejected ==
    [][(/\ last'.op \in {"postWorkout", "createWorkout", "updateWorkout"}
        /\ Has(last'.args.workout, "duration")
        /\ last'.args.workout.duration <= 0)
          => /\ last'.res = "400"
             /\ UNCHANGED storageVars]_vars

\* C14: every stored plan has at least one stored day, and so no
\* advanceWorkoutPlan call computes a remainder modulo zero.
C14_EveryPlanHasADay ==
    /\ \A p \in workoutPlans : Cardinality({d \in workoutPlanDays : d.planId = p.id}) >= 1
    /\ ~(last.op = "advanceWorkoutPlan" /\ last.res = "error")

C15_ReadOf(c) == (CHOOSE q \in inFlight[c].plan : TRUE).currentDayIndex

C15_BothAdvanced ==
    \A c \in Calls : Returned(c, "advanceWorkoutPlan") /\ inFlight[c].plan # {}

\* C15: two advanceWorkoutPlan calls for one plan, interleaved statement by
\* statement: when both have read the same currentDayIndex the plan ends
\* advanced by one step from it, not two (and by two steps when the
\* second read came after the first write).
C15_SameReadLosesAnAdvance ==
    C15_BothAdvanced =>
        LET stored == (CHOOSE p \in workoutPlans : p.id = 1).currentDayIndex
        IN IF C15_ReadOf(1) = C15_ReadOf(2)
             THEN stored = Mod(C15_ReadOf(1) + 1, DayCount(1))
             ELSE stored = Mod(2, DayCount(1))

C15_Witness ==
    /\ C15_BothAdvanced
    /\ DayCount(1) >= 3
    /\ C15_ReadOf(1) = C15_ReadOf(2)
    /\ \E p \in workoutPlans :
          /\ p.id = 1
          /\ p.currentDayIndex = Mod(C15_ReadOf(1) + 1, DayCount(1))
          /\ p.currentDayIndex # Mod(C15_ReadOf(1) + 2, DayCount(1))

\* both calls are createWorkoutPlan calls of one user that have inserted
\* their plan, each having run its deactivate statement before either insert
C17_BothDeactivatedFirst ==
    /\ \A c \in Calls :
          /\ inFlight[c].op = "createWorkoutPlan"
          /\ inFlight[c].pc \in {"insertDays", "returned"}
    /\ \A c, d \in Calls : inFlight[c].deactivatedAt <= inFlight[d].newPlan
    /\ inFlight[1].user = inFlight[2].user

C17_AsksActive(c) ==
    Has(inFlight[c].plan, "isActive") => inFlight[c].plan.isActive

C16_StoredIs(list) ==
    LET stored == SortById({e \in exercises : e.workoutId = 1})
    IN /\ Len(stored) = Len(list)
       /\ \A i \in 1..Len(list) :
             LET given == list[i].sets
                 kept == SortById({t \in sets : t.exerciseId = stored[i].id})
             IN /\ stored[i].name = list[i].name
                /\ Len(kept) = Len(given)
                /\ \A j \in 1..Len(given) :
                      /\ kept[j].setNumber = given[j].setNumber
                      /\ kept[j].reps = given[j].reps

\* C16: two strength updateWorkout calls on one workout, interleaved
\* statement by statement: the delete-exercises statement of one call
\* removes every exercise the other call has inserted so far, with its sets.
C16_DeletePhaseDestroysOthersInserts ==
    [][\A c, d \in Calls :
          (/\ c # d
           /\ inFlight[c].op = "updateWorkout" /\ inFlight[c].pc = "deleteExercises"
           /\ inFlight'[c].pc # "deleteExercises"
           /\ inFlight[d].op = "updateWorkout" /\ inFlight[d].id = inFlight[c].id)
             => \A x \in inFlight[d].exercisesWithSets :
                   /\ \A e \in exercises' : e.id # x
                   /\ \A t \in sets' : t.exerciseId # x]_vars

\* both calls returned a row, an exercise that one of them inserted and
\* returned is gone, and the stored children are neither call's list
C16_Witness ==
    /\ \A c \in Calls : Returned(c, "updateWorkout") /\ inFlight[c].res = "row"
                           /\ inFlight[c].exercisesWithSets # {}
    /\ \E c \in Calls : \E x \in inFlight[c].exercisesWithSets :
          \A e \in exercises : e.id # x
    /\ \A c \in Calls : ~C16_StoredIs(inFlight[c].exerciseData)

\* what is left of a set when its number is put aside
C18_Entry(set) == <<set.reps, set.weight, set.isWarmup>>

\* C18: in the form every exercise's sets are numbered 1..N in list order,
\* and removeSet at position i leaves the other sets in their relative
\* order, numbered 1..N-1, and the other exercises as they were.
C18_FormSetsNumberedInOrder ==
    /\ [](\A e \in 1..Len(formExercises) :
             \A k \in 1..Len(formExercises[e].sets) :
                 formExercises[e].sets[k].setNumber = k)
    /\ [][Ran("removeSet") =>
             LET e == last'.args.exerciseIndex + 1
                 i == last'.args.setIndex + 1
                 before == formExercises[e].sets
                 after == formExercises'[e].sets
             IN /\ Len(after) = Len(before) - 1
                /\ \A k \in 1..Len(after) :
                      /\ after[k].setNumber = k
                      /\ C18_Entry(after[k]) =
                            C18_Entry(before[IF k < i THEN k ELSE k + 1])
                /\ \A x \in 1..Len(formExercises) :
                      x # e => formExercises'[x] = formExercises[x]]_vars

C18_Witness ==
    /\ last.op = "removeSet"
    /\ last.args.setIndex = 1
    /\ LET setList == formExercises[last.args.exerciseIndex + 1].sets
       IN /\ Len(setList) = 2
          /\ setList[1].reps # setList[2].reps
    /\ Len(formExercises) = 2

\* C19: the sets stored for each exercise carry the setNumber values 1..N,
\* N being the number of sets of that exercise.
C19_StoredSetNumbersDense ==
    \A e \in exercises :
        LET stored == {t \in sets : t.exerciseId = e.id}
        IN {t.setNumber : t \in stored} = 1..Cardinality(stored)

\* C20: deleteWorkout on a workout the caller owns removes the workout row
\* with every exercise and set that belonged to it and returns true; it
\* returns true exactly when a workout row was deleted, and a second
\* deleteWorkout with the same arguments returns false and changes nothing.
C20_DeleteCascadesAndReportsDeletion ==
    [][Ran("deleteWorkout") =>
          LET id == last'.id
              owned == {w \in workouts : w.id = id /\ w.userId = last'.user}
              children == {e \in exercises : e.workoutId = id}
              grandchildren == {t \in sets : \E e \in children : t.exerciseId = e.id}
          IN /\ (last'.res = "true") = (workouts' # workouts)
             /\ owned # {} =>
                   /\ last'.res = "true"
                   /\ workouts' = workouts \ owned
                   /\ exercises' = exercises \ children
                   /\ sets' = sets \ grandchildren
             /\ (/\ last.op = "deleteWorkout" /\ last.res = "true"
                 /\ last.id = id /\ last.user = last'.user)
                   => /\ last'.res = "false"
                      /\ UNCHANGED <<workouts, exercises, sets>>]_vars

C20_Witness ==
    /\ last.op = "deleteWorkout"
    /\ last.res = "true"
    /\ \A w \in workouts : w.id # last.id
    /\ \E w \in workouts : \E e \in exercises :
          e.workoutId = w.id /\ \E t \in sets : t.exerciseId = e.id
    /\ Cardinality(workouts) = workoutSeq - 2
    /\ Cardinality(exercises) = exerciseSeq - 2
    /\ Cardinality(sets) < setSeq - 1

\* C21: in every state reached by createWorkout, updateWorkout and
\* deleteWorkout calls, every stored exercise row belongs to a workout whose
\* workoutType is "strength": no cardio workout owns exercises or sets.
C21_ExercisesBelongToStrengthWorkouts ==
    \A e \in exercises :
        \E w \in workouts : w.id = e.workoutId /\ w.workoutType = "strength"

\* the elements of a list
Range(list) == {list[i] : i \in 1..Len(list)}

\* a workout as a read returned it shows what is stored: the row of that
\* user, for a strength workout every stored exercise once, each with every
\* stored set of it once in ascending setNumber order, for a cardio workout
\* no exercises field
C22_ShowsStored(found, userId) ==
    LET row == [f \in DOMAIN found \ {"exercises"} |-> found[f]]
    IN /\ row \in workouts
       /\ row.userId = userId
       /\ IF row.workoutType # "strength" THEN ~Has(found, "exercises")
          ELSE /\ Has(found, "exercises")
               /\ Len(found.exercises) = Cardinality({e \in exercises : e.workoutId = row.id})
               /\ {[f \in DOMAIN e \ {"sets"} |-> e[f]] : e \in Range(found.exercises)}
                     = {e \in exercises : e.workoutId = row.id}
               /\ \A e \in Range(found.exercises) :
                     /\ Range(e.sets) = {t \in sets : t.exerciseId = e.id}
                     /\ Len(e.sets) = Cardinality(Range(e.sets))
                     /\ \A i, j \in 1..Len(e.sets) :
                           i < j => e.sets[i].setNumber <= e.sets[j].setNumber

C22_Reads ==
    /\ Ran("getWorkout") =>
          IF last'.res = "undefined" THEN OwnedWorkouts(last'.id, last'.user) = {}
          ELSE last'.ret.id = last'.id /\ C22_ShowsStored(last'.ret, last'.user)
    /\ Ran("getWorkouts") =>
          LET owned == {w \in workouts : w.userId = last'.user}
          IN /\ \A found \in Range(last'.ret) : C22_ShowsStored(found, last'.user)
             /\ Len(last'.ret) = Cardinality({found.id : found \in Range(last'.ret)})
             /\ Len(last'.ret) =
                   IF Cardinality(owned) <= last'.args.limit
                     THEN Cardinality(owned) ELSE last'.args.limit

\* a write that returned exercises is followed by reads that return them
C22_ReadAfterWrite ==
    (/\ Ran("createWorkout") \/ Ran("updateWorkout")
     /\ last'.res = "row"
     /\ WritesExercises(last'.args.workout, last'.args.exerciseData))
       => LET written == CreatedExercises(TheList(last'.args.exerciseData), last'.id)
          IN \A found \in getWorkoutResults(last.id, last.user)' :
                /\ Has(found, "exercises")
                /\ Len(found.exercises) = Len(written)
                /\ Range(found.exercises) = Range(written)

Abs(a) == IF a >= 0 THEN a ELSE 0 - a

\* percent is round(100 * macro / total): an integer nearest to the quotient
IsRounded(percent, macro, total) ==
    total # 0 /\ 2 * Abs(100 * macro - percent * total) <= Abs(total)

\* the protein, carbs and fat sums over the window of the getMealStats
\* call just made
C23_Sums ==
    LET rows == {m \in meals : /\ m.userId = last'.user
                               /\ m.date >= last'.args.now - last'.args.days}
    IN [f \in {"protein", "carbs", "fat"} |->
           Total({m \in rows : m[f] # NoMacro}, f)]

\* C23: getMealStats returns nutritionBreakdown {protein: 0, carbs: 0,
\* fat: 0} when the protein, carbs and fat sums over the window are all
\* zero (an empty window and all-null macros included); otherwise each
\* entry is round(100 * macroSum / (proteinSum + carbsSum + fatSum)), and
\* nothing is divided by zero.
C23_BreakdownIsZeroOrRounded ==
    [][Ran("getMealStats") =>
         LET total == C23_Sums.protein + C23_Sums.carbs + C23_Sums.fat
             breakdown == last'.ret.nutritionBreakdown
         IN IF \A f \in DOMAIN C23_Sums : C23_Sums[f] = 0
              THEN breakdown = [protein |-> 0, carbs |-> 0, fat |-> 0]
              ELSE \A f \in DOMAIN C23_Sums :
                      IsRounded(breakdown[f], C23_Sums[f], total)]_vars

\* the workouts of the caller inside the window of the getWorkoutStats call
\* just made
C24_Window ==
    {w \in workouts : /\ w.userId = last'.user
                      /\ w.date >= last'.args.now - last'.args.days}

\* C24: getWorkoutStats(userId, days) counts and sums only the workouts of
\* userId whose date is inside the trailing window, takes a null
\* caloriesBurned as 0 in the sum, and returns {totalWorkouts: 0,
\* totalMinutes: 0, totalCalories: 0, avgDuration: 0} when no workout of
\* that user is in the window.
C24_StatsCoverTheUsersWindow ==
    [][Ran("getWorkoutStats") =>
         /\ last'.ret.totalWorkouts = Cardinality(C24_Window)
         /\ last'.ret.totalMinutes = Total(C24_Window, "duration")
         /\ last'.ret.totalCalories =
               Total({w \in C24_Window : w.caloriesBurned # NoCalories}, "caloriesBurned")
         /\ IF C24_Window = {}
              THEN last'.ret = [totalWorkouts |-> 0, totalMinutes |-> 0,
                               totalCalories |-> 0, avgDuration |-> 0]
              ELSE 2 * Abs(last'.ret.totalMinutes
                             - last'.ret.avgDuration * last'.ret.totalWorkouts)
                     <= last'.ret.totalWorkouts]_vars

\* stats that count one workout with 300 calories and leave out a workout
\* of the same user before the window, and stats that count one workout
\* without calories while another user has a workout in the window
C24_Witness ==
    /\ last.op = "getWorkoutStats"
    /\ last.ret.totalWorkouts = 1
    /\ Cardinality(workouts) = 2
    /\ \/ /\ last.ret.totalCalories = 300
          /\ \A w \in workouts : w.userId = last.user
       \/ /\ \E w \in workouts :
                /\ w.userId = last.user
                /\ w.date >= last.args.now - last.args.days
                /\ w.caloriesBurned = NoCalories
          /\ \E w \in workouts :
                w.userId # last.user /\ w.date >= last.args.now - last.args.days

\* C25: each user has at most one goals record in every reachable state:
\* after any sequence, and any interleaving, of GET /api/user-goals (which
\* creates a default record when none exists) and PUT /api/user-goals
\* (which updates the record if it exists, else creates one) by the same
\* user, storage holds at most one userGoals row for that user.
C25_OneGoalsRecordPerUser ==
    \A u \in Users : Cardinality({g \in userGoals : g.userId = u}) <= 1

\* the attributes of the update just made do not carry workoutType = "strength"
C26_NotStrength ==
    ~(/\ Has(last'.args.workout, "workoutType")
      /\ last'.args.workout.workoutType = "strength")

\* C26: updateWorkout whose partial attributes do not carry workoutType =
\* 'strength' (field omitted, or set to 'cardio') leaves the workout's
\* existing exercises and sets in storage unchanged and returns the workout
\* without an exercises field, even when replacement exercise data is
\* supplied.
C26_NonStrengthUpdateKeepsChildren ==
    [][(Ran("updateWorkout") /\ C26_NotStrength) =>
          /\ exercises' = exercises
          /\ sets' = sets
          /\ ~Has(updateWorkoutReturn(last'.id, last'.user, last'.args.workout,
                                      last'.args.exerciseData),
                  "exercises")]_vars

\* an update without a workoutType that carried a replacement list for a
\* workout of the caller that has exercises and sets
C26_Witness ==
    /\ last.op = "updateWorkout"
    /\ last.res = "row"
    /\ ~Has(last.args.workout, "workoutType")
    /\ \E list \in last.args.exerciseData : Len(list) >= 1
    /\ \E e \in exercises :
          e.workoutId = last.id /\ \E t \in sets : t.exerciseId = e.id

\* every set references a stored exercise, every exercise a stored workout,
\* every plan day a stored plan
C27_Integrity ==
    /\ \A t \in sets : \E e \in exercises : e.id = t.exerciseId
    /\ \A e \in exercises : \E w \in workouts : w.id = e.workoutId
    /\ \A d \in workoutPlanDays : \E p \in workoutPlans : p.id = d.planId

\* a delete that removed a workout or a plan left no child row of it
C27_DeleteLeavesNoChild ==
    /\ (Ran("deleteWorkout") /\ last'.res = "true") =>
          /\ \A e \in exercises' : e.workoutId # last'.id
          /\ \A t \in sets' : \A e \in exercises :
                e.workoutId = last'.id => t.exerciseId # e.id
    /\ (Ran("deleteWorkoutPlan") /\ last'.res = "true") =>
          \A d \in workoutPlanDays' : d.planId # last'.id

\* C27: referential integrity holds in every state reachable by completed
\* create, update and delete operations on workouts and plans: every set
\* references an existing exercise, every exercise an existing workout,
\* every plan day an existing plan; deleting a workout or a plan leaves no
\* child row of it behind.
C27_ReferentialIntegrity ==
    []C27_Integrity /\ [][C27_DeleteLeavesNoChild]_vars

\* the plan, whose days had been stored, was just deleted and its days are
\* gone, while a workout with an exercise and a set is stored
C27_Witness ==
    /\ last.op = "deleteWorkoutPlan"
    /\ last.res = "true"
    /\ daySeq > 1
    /\ workoutPlanDays = {}
    /\ sets # {}

\* the plan of the advanceWorkoutPlan call just made, when the caller owns it
C28_Plan == {p \in workoutPlans : p.id = last'.id /\ p.userId = last'.user}

\* C28: advanceWorkoutPlan on a plan owned by the caller changes only that
\* plan's currentDayIndex and lastWorkoutDate: the plan's isActive flag, its
\* days, and every other plan are unchanged; the advance is applied whether
\* or not the plan is the user's active plan (a plan is advanced exactly
\* when it has a day, whatever its isActive flag).
C28_AdvanceChangesOnlyTheCursor ==
    [][(Ran("advanceWorkoutPlan") /\ C28_Plan # {}) =>
          \A p \in C28_Plan :
             /\ {q \in workoutPlans' : q.id # p.id} = {q \in workoutPlans : q.id # p.id}
             /\ \E q \in workoutPlans' :
                   /\ q.id = p.id
                   /\ \A f \in DOMAIN p \ {"currentDayIndex", "lastWorkoutDate"} :
                         q[f] = p[f]
                   /\ (last'.res = "void") = (\E d \in workoutPlanDays : d.planId = p.id)
                   /\ last'.res = "void" => q.lastWorkoutDate = last'.args.date
             /\ workoutPlanDays' = workoutPlanDays
             /\ UNCHANGED <<workoutVars, mealVars, goalVars>>]_vars

\* an inactive plan with two days was advanced to its second day while the
\* same user's other plan, the active one, stayed where it was
C28_Witness ==
    /\ last.op = "advanceWorkoutPlan"
    /\ last.res = "void"
    /\ \E p, q \in workoutPlans :
          /\ p.id = last.id /\ p.userId = last.user
          /\ ~p.isActive
          /\ p.currentDayIndex = 1
          /\ p.lastWorkoutDate = last.args.date
          /\ Cardinality({d \in workoutPlanDays : d.planId = p.id}) = 2
          /\ q.id # p.id /\ q.userId = p.userId /\ q.isActive
          /\ q.lastWorkoutDate = NoDate

\* the deleteWorkoutPlan call just made removed an active plan of its caller
C29_DeletedActivePlan ==
    /\ Ran("deleteWorkoutPlan")
    /\ last'.res = "true"
    /\ \E p \in workoutPlans : p.id = last'.id /\ p.userId = last'.user /\ p.isActive

\* the step is a call by which user u may get an active plan: a create, or
\* an update of one of u's plans (which ends the absence only if it sets
\* isActive)
C29_Activates(u) ==
    /\ last'.user = u
    /\ Ran("createWorkoutPlan") \/ Ran("updateWorkoutPlan")

\* C29: after deleteWorkoutPlan removes a user's active plan, that user has
\* no active plan (plans deactivated earlier stay inactive), so
\* getActiveWorkoutPlan and getNextWorkoutDay both return absence until a
\* new plan is created or a plan is updated to active.
C29_NoActivePlanAfterDelete ==
    [][/\ C29_DeletedActivePlan =>
             /\ ActivePlans(last.user)' = {}
             /\ getNextWorkoutDayResults(last.user)' = {NoDay}
       /\ \A u \in Users :
             (ActivePlans(u) = {} /\ ~C29_Activates(u)) =>
                 /\ ActivePlans(u)' = {}
                 /\ getNextWorkoutDayResults(u)' = {NoDay}]_vars

\* C30: for every non-negative integer triple of macro sums with a positive
\* total, each percentage returned by getMealStats lies in 0..100 and the
\* three percentages sum to 99, 100 or 101.
C30_PercentagesSumToAbout100 ==
    (/\ last.op = "nutritionBreakdown"
     /\ last.args.totalProtein + last.args.totalCarbs + last.args.totalFat > 0)
       => /\ \A f \in {"protein", "carbs", "fat"} : last.ret[f] \in 0..100
          /\ last.ret.protein + last.ret.carbs + last.ret.fat \in {99, 100, 101}

\* sums 2, 2, 3 give 29, 29 and 43 percent, 101 together
C30_Witness ==
    /\ last.op = "nutritionBreakdown"
    /\ last.args = [totalProtein |-> 2, totalCarbs |-> 2, totalFat |-> 3]
    /\ last.ret = [protein |-> 29, carbs |-> 29, fat |-> 43]


====
